---------------------------- MODULE Spec2Model ----------------------------
(*************************************************************************)
(* HarmonyLab exercise definitions: the LilyPond chord notation parser   *)
(* (ExerciseLilyPond) and the exercise record that is built from it, in  *)
(* the two copies the repository holds:                                  *)
(*   "lab"     = src/lab/objects.py             (absolute octaves,      *)
(*               parsing aborted on the first bad pitch entry)           *)
(*   "harmony" = src/harmony/apps/lab/objects.py (octaves relative to    *)
(*               the previous note, errors accumulated per chord)        *)
(* A string is a sequence of one-character strings.                      *)
(*************************************************************************)
EXTENDS Integers, Sequences, FiniteSets, TLC

\* ---------------------------------------------------------------- bounds
MaxRawLen      == 5  \* pieces of a free-form notation string
MaxMarks       == 2  \* characters after the note letter of a generated entry
MaxChords      == 2  \* bracket groups of a generated notation
MaxEntries     == 2  \* pitch entries per chord of a notation of several chords
MaxWideEntries == 3  \* pitch entries of a notation of one chord

\* ------------------------------------------------------------ characters
LT == "<"
GT == ">"
SP == " "
TAB == "\t"
NL == "\n"
CR == "\r"
FF == "\f"
VT == "\\v"  \* the vertical tab, written as its escape
\* what \s of re and str.strip() take for white space
Whitespace == {SP, TAB, NL, CR, FF, VT}
Digits == {"0", "1", "2", "3", "4", "5", "6", "7", "8", "9"}
XNote == <<"\\", "x", "N", "o", "t", "e">>

IsSpace(c) == c \in Whitespace

VARIABLE
  lp_type         \* the type of the notation string: "str", or "unicode"
                  \* as json.loads hands it over

\* a character outside ASCII is written as its code point, "U+00A0"; in a
\* str the ones up to U+00FF stand for the byte of that value.
\* What unicode.strip() takes besides the six characters of Whitespace
UnicodeSpace ==
  {"U+001C", "U+001D", "U+001E", "U+001F", "U+0085", "U+00A0",
   "U+1680", "U+180E", "U+2000", "U+2001", "U+2002", "U+2003",
   "U+2004", "U+2005", "U+2006", "U+2007", "U+2008", "U+2009",
   "U+200A", "U+2028", "U+2029", "U+202F", "U+205F", "U+3000"}

\* the characters strip() takes off the two ends of the string
StripChars ==
  IF lp_type = "unicode" THEN Whitespace \cup UnicodeSpace ELSE Whitespace

DigitVal(c) ==
  CASE c = "0" -> 0 [] c = "1" -> 1 [] c = "2" -> 2 [] c = "3" -> 3
    [] c = "4" -> 4 [] c = "5" -> 5 [] c = "6" -> 6 [] c = "7" -> 7
    [] c = "8" -> 8 [] c = "9" -> 9

UpperCase == <<"A", "B", "C", "D", "E", "F", "G", "H", "I", "J", "K", "L", "M",
              "N", "O", "P", "Q", "R", "S", "T", "U", "V", "W", "X", "Y", "Z">>
LowerCase == <<"a", "b", "c", "d", "e", "f", "g", "h", "i", "j", "k", "l", "m",
              "n", "o", "p", "q", "r", "s", "t", "u", "v", "w", "x", "y", "z">>

\* the characters outside ASCII that unicode.lower() changes, and below
\* what it makes of each (the lower-case mappings of Unicode 5.2); the
\* dotted I and the Kelvin sign become an ASCII letter
UnicodeUpper ==
  <<"U+00C0", "U+00C1", "U+00C2", "U+00C3", "U+00C4", "U+00C5", "U+00C6",
    "U+00C7", "U+00C8", "U+00C9", "U+00CA", "U+00CB", "U+00CC", "U+00CD",
    "U+00CE", "U+00CF", "U+00D0", "U+00D1", "U+00D2", "U+00D3", "U+00D4",
    "U+00D5", "U+00D6", "U+00D8", "U+00D9", "U+00DA", "U+00DB", "U+00DC",
    "U+00DD", "U+00DE", "U+0100", "U+0102", "U+0104", "U+0106", "U+0108",
    "U+010A", "U+010C", "U+010E", "U+0110", "U+0112", "U+0114", "U+0116",
    "U+0118", "U+011A", "U+011C", "U+011E", "U+0120", "U+0122", "U+0124",
    "U+0126", "U+0128", "U+012A", "U+012C", "U+012E", "U+0130", "U+0132",
    "U+0134", "U+0136", "U+0139", "U+013B", "U+013D", "U+013F", "U+0141",
    "U+0143", "U+0145", "U+0147", "U+014A", "U+014C", "U+014E", "U+0150",
    "U+0152", "U+0154", "U+0156", "U+0158", "U+015A", "U+015C", "U+015E",
    "U+0160", "U+0162", "U+0164", "U+0166", "U+0168", "U+016A", "U+016C",
    "U+016E", "U+0170", "U+0172", "U+0174", "U+0176", "U+0178", "U+0179",
    "U+017B", "U+017D", "U+0181", "U+0182", "U+0184", "U+0186", "U+0187",
    "U+0189", "U+018A", "U+018B", "U+018E", "U+018F", "U+0190", "U+0191",
    "U+0193", "U+0194", "U+0196", "U+0197", "U+0198", "U+019C", "U+019D",
    "U+019F", "U+01A0", "U+01A2", "U+01A4", "U+01A6", "U+01A7", "U+01A9",
    "U+01AC", "U+01AE", "U+01AF", "U+01B1", "U+01B2", "U+01B3", "U+01B5",
    "U+01B7", "U+01B8", "U+01BC", "U+01C4", "U+01C5", "U+01C7", "U+01C8",
    "U+01CA", "U+01CB", "U+01CD", "U+01CF", "U+01D1", "U+01D3", "U+01D5",
    "U+01D7", "U+01D9", "U+01DB", "U+01DE", "U+01E0", "U+01E2", "U+01E4",
    "U+01E6", "U+01E8", "U+01EA", "U+01EC", "U+01EE", "U+01F1", "U+01F2",
    "U+01F4", "U+01F6", "U+01F7", "U+01F8", "U+01FA", "U+01FC", "U+01FE",
    "U+0200", "U+0202", "U+0204", "U+0206", "U+0208", "U+020A", "U+020C",
    "U+020E", "U+0210", "U+0212", "U+0214", "U+0216", "U+0218", "U+021A",
    "U+021C", "U+021E", "U+0220", "U+0222", "U+0224", "U+0226", "U+0228",
    "U+022A", "U+022C", "U+022E", "U+0230", "U+0232", "U+023A", "U+023B",
    "U+023D", "U+023E", "U+0241", "U+0243", "U+0244", "U+0245", "U+0246",
    "U+0248", "U+024A", "U+024C", "U+024E", "U+0370", "U+0372", "U+0376",
    "U+0386", "U+0388", "U+0389", "U+038A", "U+038C", "U+038E", "U+038F",
    "U+0391", "U+0392", "U+0393", "U+0394", "U+0395", "U+0396", "U+0397",
    "U+0398", "U+0399", "U+039A", "U+039B", "U+039C", "U+039D", "U+039E",
    "U+039F", "U+03A0", "U+03A1", "U+03A3", "U+03A4", "U+03A5", "U+03A6",
    "U+03A7", "U+03A8", "U+03A9", "U+03AA", "U+03AB", "U+03CF", "U+03D8",
    "U+03DA", "U+03DC", "U+03DE", "U+03E0", "U+03E2", "U+03E4", "U+03E6",
    "U+03E8", "U+03EA", "U+03EC", "U+03EE", "U+03F4", "U+03F7", "U+03F9",
    "U+03FA", "U+03FD", "U+03FE", "U+03FF", "U+0400", "U+0401", "U+0402",
    "U+0403", "U+0404", "U+0405", "U+0406", "U+0407", "U+0408", "U+0409",
    "U+040A", "U+040B", "U+040C", "U+040D", "U+040E", "U+040F", "U+0410",
    "U+0411", "U+0412", "U+0413", "U+0414", "U+0415", "U+0416", "U+0417",
    "U+0418", "U+0419", "U+041A", "U+041B", "U+041C", "U+041D", "U+041E",
    "U+041F", "U+0420", "U+0421", "U+0422", "U+0423", "U+0424", "U+0425",
    "U+0426", "U+0427", "U+0428", "U+0429", "U+042A", "U+042B", "U+042C",
    "U+042D", "U+042E", "U+042F", "U+0460", "U+0462", "U+0464", "U+0466",
    "U+0468", "U+046A", "U+046C", "U+046E", "U+0470", "U+0472", "U+0474",
    "U+0476", "U+0478", "U+047A", "U+047C", "U+047E", "U+0480", "U+048A",
    "U+048C", "U+048E", "U+0490", "U+0492", "U+0494", "U+0496", "U+0498",
    "U+049A", "U+049C", "U+049E", "U+04A0", "U+04A2", "U+04A4", "U+04A6",
    "U+04A8", "U+04AA", "U+04AC", "U+04AE", "U+04B0", "U+04B2", "U+04B4",
    "U+04B6", "U+04B8", "U+04BA", "U+04BC", "U+04BE", "U+04C0", "U+04C1",
    "U+04C3", "U+04C5", "U+04C7", "U+04C9", "U+04CB", "U+04CD", "U+04D0",
    "U+04D2", "U+04D4", "U+04D6", "U+04D8", "U+04DA", "U+04DC", "U+04DE",
    "U+04E0", "U+04E2", "U+04E4", "U+04E6", "U+04E8", "U+04EA", "U+04EC",
    "U+04EE", "U+04F0", "U+04F2", "U+04F4", "U+04F6", "U+04F8", "U+04FA",
    "U+04FC", "U+04FE", "U+0500", "U+0502", "U+0504", "U+0506", "U+0508",
    "U+050A", "U+050C", "U+050E", "U+0510", "U+0512", "U+0514", "U+0516",
    "U+0518", "U+051A", "U+051C", "U+051E", "U+0520", "U+0522", "U+0524",
    "U+0531", "U+0532", "U+0533", "U+0534", "U+0535", "U+0536", "U+0537",
    "U+0538", "U+0539", "U+053A", "U+053B", "U+053C", "U+053D", "U+053E",
    "U+053F", "U+0540", "U+0541", "U+0542", "U+0543", "U+0544", "U+0545",
    "U+0546", "U+0547", "U+0548", "U+0549", "U+054A", "U+054B", "U+054C",
    "U+054D", "U+054E", "U+054F", "U+0550", "U+0551", "U+0552", "U+0553",
    "U+0554", "U+0555", "U+0556", "U+10A0", "U+10A1", "U+10A2", "U+10A3",
    "U+10A4", "U+10A5", "U+10A6", "U+10A7", "U+10A8", "U+10A9", "U+10AA",
    "U+10AB", "U+10AC", "U+10AD", "U+10AE", "U+10AF", "U+10B0", "U+10B1",
    "U+10B2", "U+10B3", "U+10B4", "U+10B5", "U+10B6", "U+10B7", "U+10B8",
    "U+10B9", "U+10BA", "U+10BB", "U+10BC", "U+10BD", "U+10BE", "U+10BF",
    "U+10C0", "U+10C1", "U+10C2", "U+10C3", "U+10C4", "U+10C5", "U+1E00",
    "U+1E02", "U+1E04", "U+1E06", "U+1E08", "U+1E0A", "U+1E0C", "U+1E0E",
    "U+1E10", "U+1E12", "U+1E14", "U+1E16", "U+1E18", "U+1E1A", "U+1E1C",
    "U+1E1E", "U+1E20", "U+1E22", "U+1E24", "U+1E26", "U+1E28", "U+1E2A",
    "U+1E2C", "U+1E2E", "U+1E30", "U+1E32", "U+1E34", "U+1E36", "U+1E38",
    "U+1E3A", "U+1E3C", "U+1E3E", "U+1E40", "U+1E42", "U+1E44", "U+1E46",
    "U+1E48", "U+1E4A", "U+1E4C", "U+1E4E", "U+1E50", "U+1E52", "U+1E54",
    "U+1E56", "U+1E58", "U+1E5A", "U+1E5C", "U+1E5E", "U+1E60", "U+1E62",
    "U+1E64", "U+1E66", "U+1E68", "U+1E6A", "U+1E6C", "U+1E6E", "U+1E70",
    "U+1E72", "U+1E74", "U+1E76", "U+1E78", "U+1E7A", "U+1E7C", "U+1E7E",
    "U+1E80", "U+1E82", "U+1E84", "U+1E86", "U+1E88", "U+1E8A", "U+1E8C",
    "U+1E8E", "U+1E90", "U+1E92", "U+1E94", "U+1E9E", "U+1EA0", "U+1EA2",
    "U+1EA4", "U+1EA6", "U+1EA8", "U+1EAA", "U+1EAC", "U+1EAE", "U+1EB0",
    "U+1EB2", "U+1EB4", "U+1EB6", "U+1EB8", "U+1EBA", "U+1EBC", "U+1EBE",
    "U+1EC0", "U+1EC2", "U+1EC4", "U+1EC6", "U+1EC8", "U+1ECA", "U+1ECC",
    "U+1ECE", "U+1ED0", "U+1ED2", "U+1ED4", "U+1ED6", "U+1ED8", "U+1EDA",
    "U+1EDC", "U+1EDE", "U+1EE0", "U+1EE2", "U+1EE4", "U+1EE6", "U+1EE8",
    "U+1EEA", "U+1EEC", "U+1EEE", "U+1EF0", "U+1EF2", "U+1EF4", "U+1EF6",
    "U+1EF8", "U+1EFA", "U+1EFC", "U+1EFE", "U+1F08", "U+1F09", "U+1F0A",
    "U+1F0B", "U+1F0C", "U+1F0D", "U+1F0E", "U+1F0F", "U+1F18", "U+1F19",
    "U+1F1A", "U+1F1B", "U+1F1C", "U+1F1D", "U+1F28", "U+1F29", "U+1F2A",
    "U+1F2B", "U+1F2C", "U+1F2D", "U+1F2E", "U+1F2F", "U+1F38", "U+1F39",
    "U+1F3A", "U+1F3B", "U+1F3C", "U+1F3D", "U+1F3E", "U+1F3F", "U+1F48",
    "U+1F49", "U+1F4A", "U+1F4B", "U+1F4C", "U+1F4D", "U+1F59", "U+1F5B",
    "U+1F5D", "U+1F5F", "U+1F68", "U+1F69", "U+1F6A", "U+1F6B", "U+1F6C",
    "U+1F6D", "U+1F6E", "U+1F6F", "U+1F88", "U+1F89", "U+1F8A", "U+1F8B",
    "U+1F8C", "U+1F8D", "U+1F8E", "U+1F8F", "U+1F98", "U+1F99", "U+1F9A",
    "U+1F9B", "U+1F9C", "U+1F9D", "U+1F9E", "U+1F9F", "U+1FA8", "U+1FA9",
    "U+1FAA", "U+1FAB", "U+1FAC", "U+1FAD", "U+1FAE", "U+1FAF", "U+1FB8",
    "U+1FB9", "U+1FBA", "U+1FBB", "U+1FBC", "U+1FC8", "U+1FC9", "U+1FCA",
    "U+1FCB", "U+1FCC", "U+1FD8", "U+1FD9", "U+1FDA", "U+1FDB", "U+1FE8",
    "U+1FE9", "U+1FEA", "U+1FEB", "U+1FEC", "U+1FF8", "U+1FF9", "U+1FFA",
    "U+1FFB", "U+1FFC", "U+2126", "U+212A", "U+212B", "U+2132", "U+2160",
    "U+2161", "U+2162", "U+2163", "U+2164", "U+2165", "U+2166", "U+2167",
    "U+2168", "U+2169", "U+216A", "U+216B", "U+216C", "U+216D", "U+216E",
    "U+216F", "U+2183", "U+24B6", "U+24B7", "U+24B8", "U+24B9", "U+24BA",
    "U+24BB", "U+24BC", "U+24BD", "U+24BE", "U+24BF", "U+24C0", "U+24C1",
    "U+24C2", "U+24C3", "U+24C4", "U+24C5", "U+24C6", "U+24C7", "U+24C8",
    "U+24C9", "U+24CA", "U+24CB", "U+24CC", "U+24CD", "U+24CE", "U+24CF",
    "U+2C00", "U+2C01", "U+2C02", "U+2C03", "U+2C04", "U+2C05", "U+2C06",
    "U+2C07", "U+2C08", "U+2C09", "U+2C0A", "U+2C0B", "U+2C0C", "U+2C0D",
    "U+2C0E", "U+2C0F", "U+2C10", "U+2C11", "U+2C12", "U+2C13", "U+2C14",
    "U+2C15", "U+2C16", "U+2C17", "U+2C18", "U+2C19", "U+2C1A", "U+2C1B",
    "U+2C1C", "U+2C1D", "U+2C1E", "U+2C1F", "U+2C20", "U+2C21", "U+2C22",
    "U+2C23", "U+2C24", "U+2C25", "U+2C26", "U+2C27", "U+2C28", "U+2C29",
    "U+2C2A", "U+2C2B", "U+2C2C", "U+2C2D", "U+2C2E", "U+2C60", "U+2C62",
    "U+2C63", "U+2C64", "U+2C67", "U+2C69", "U+2C6B", "U+2C6D", "U+2C6E",
    "U+2C6F", "U+2C70", "U+2C72", "U+2C75", "U+2C7E", "U+2C7F", "U+2C80",
    "U+2C82", "U+2C84", "U+2C86", "U+2C88", "U+2C8A", "U+2C8C", "U+2C8E",
    "U+2C90", "U+2C92", "U+2C94", "U+2C96", "U+2C98", "U+2C9A", "U+2C9C",
    "U+2C9E", "U+2CA0", "U+2CA2", "U+2CA4", "U+2CA6", "U+2CA8", "U+2CAA",
    "U+2CAC", "U+2CAE", "U+2CB0", "U+2CB2", "U+2CB4", "U+2CB6", "U+2CB8",
    "U+2CBA", "U+2CBC", "U+2CBE", "U+2CC0", "U+2CC2", "U+2CC4", "U+2CC6",
    "U+2CC8", "U+2CCA", "U+2CCC", "U+2CCE", "U+2CD0", "U+2CD2", "U+2CD4",
    "U+2CD6", "U+2CD8", "U+2CDA", "U+2CDC", "U+2CDE", "U+2CE0", "U+2CE2",
    "U+2CEB", "U+2CED", "U+A640", "U+A642", "U+A644", "U+A646", "U+A648",
    "U+A64A", "U+A64C", "U+A64E", "U+A650", "U+A652", "U+A654", "U+A656",
    "U+A658", "U+A65A", "U+A65C", "U+A65E", "U+A662", "U+A664", "U+A666",
    "U+A668", "U+A66A", "U+A66C", "U+A680", "U+A682", "U+A684", "U+A686",
    "U+A688", "U+A68A", "U+A68C", "U+A68E", "U+A690", "U+A692", "U+A694",
    "U+A696", "U+A722", "U+A724", "U+A726", "U+A728", "U+A72A", "U+A72C",
    "U+A72E", "U+A732", "U+A734", "U+A736", "U+A738", "U+A73A", "U+A73C",
    "U+A73E", "U+A740", "U+A742", "U+A744", "U+A746", "U+A748", "U+A74A",
    "U+A74C", "U+A74E", "U+A750", "U+A752", "U+A754", "U+A756", "U+A758",
    "U+A75A", "U+A75C", "U+A75E", "U+A760", "U+A762", "U+A764", "U+A766",
    "U+A768", "U+A76A", "U+A76C", "U+A76E", "U+A779", "U+A77B", "U+A77D",
    "U+A77E", "U+A780", "U+A782", "U+A784", "U+A786", "U+A78B", "U+FF21",
    "U+FF22", "U+FF23", "U+FF24", "U+FF25", "U+FF26", "U+FF27", "U+FF28",
    "U+FF29", "U+FF2A", "U+FF2B", "U+FF2C", "U+FF2D", "U+FF2E", "U+FF2F",
    "U+FF30", "U+FF31", "U+FF32", "U+FF33", "U+FF34", "U+FF35", "U+FF36",
    "U+FF37", "U+FF38", "U+FF39", "U+FF3A", "U+10400", "U+10401",
    "U+10402", "U+10403", "U+10404", "U+10405", "U+10406", "U+10407",
    "U+10408", "U+10409", "U+1040A", "U+1040B", "U+1040C", "U+1040D",
    "U+1040E", "U+1040F", "U+10410", "U+10411", "U+10412", "U+10413",
    "U+10414", "U+10415", "U+10416", "U+10417", "U+10418", "U+10419",
    "U+1041A", "U+1041B", "U+1041C", "U+1041D", "U+1041E", "U+1041F",
    "U+10420", "U+10421", "U+10422", "U+10423", "U+10424", "U+10425",
    "U+10426", "U+10427">>
UnicodeLower ==
  <<"U+00E0", "U+00E1", "U+00E2", "U+00E3", "U+00E4", "U+00E5", "U+00E6",
    "U+00E7", "U+00E8", "U+00E9", "U+00EA", "U+00EB", "U+00EC", "U+00ED",
    "U+00EE", "U+00EF", "U+00F0", "U+00F1", "U+00F2", "U+00F3", "U+00F4",
    "U+00F5", "U+00F6", "U+00F8", "U+00F9", "U+00FA", "U+00FB", "U+00FC",
    "U+00FD", "U+00FE", "U+0101", "U+0103", "U+0105", "U+0107", "U+0109",
    "U+010B", "U+010D", "U+010F", "U+0111", "U+0113", "U+0115", "U+0117",
    "U+0119", "U+011B", "U+011D", "U+011F", "U+0121", "U+0123", "U+0125",
    "U+0127", "U+0129", "U+012B", "U+012D", "U+012F", "i", "U+0133",
    "U+0135", "U+0137", "U+013A", "U+013C", "U+013E", "U+0140", "U+0142",
    "U+0144", "U+0146", "U+0148", "U+014B", "U+014D", "U+014F", "U+0151",
    "U+0153", "U+0155", "U+0157", "U+0159", "U+015B", "U+015D", "U+015F",
    "U+0161", "U+0163", "U+0165", "U+0167", "U+0169", "U+016B", "U+016D",
    "U+016F", "U+0171", "U+0173", "U+0175", "U+0177", "U+00FF", "U+017A",
    "U+017C", "U+017E", "U+0253", "U+0183", "U+0185", "U+0254", "U+0188",
    "U+0256", "U+0257", "U+018C", "U+01DD", "U+0259", "U+025B", "U+0192",
    "U+0260", "U+0263", "U+0269", "U+0268", "U+0199", "U+026F", "U+0272",
    "U+0275", "U+01A1", "U+01A3", "U+01A5", "U+0280", "U+01A8", "U+0283",
    "U+01AD", "U+0288", "U+01B0", "U+028A", "U+028B", "U+01B4", "U+01B6",
    "U+0292", "U+01B9", "U+01BD", "U+01C6", "U+01C6", "U+01C9", "U+01C9",
    "U+01CC", "U+01CC", "U+01CE", "U+01D0", "U+01D2", "U+01D4", "U+01D6",
    "U+01D8", "U+01DA", "U+01DC", "U+01DF", "U+01E1", "U+01E3", "U+01E5",
    "U+01E7", "U+01E9", "U+01EB", "U+01ED", "U+01EF", "U+01F3", "U+01F3",
    "U+01F5", "U+0195", "U+01BF", "U+01F9", "U+01FB", "U+01FD", "U+01FF",
    "U+0201", "U+0203", "U+0205", "U+0207", "U+0209", "U+020B", "U+020D",
    "U+020F", "U+0211", "U+0213", "U+0215", "U+0217", "U+0219", "U+021B",
    "U+021D", "U+021F", "U+019E", "U+0223", "U+0225", "U+0227", "U+0229",
    "U+022B", "U+022D", "U+022F", "U+0231", "U+0233", "U+2C65", "U+023C",
    "U+019A", "U+2C66", "U+0242", "U+0180", "U+0289", "U+028C", "U+0247",
    "U+0249", "U+024B", "U+024D", "U+024F", "U+0371", "U+0373", "U+0377",
    "U+03AC", "U+03AD", "U+03AE", "U+03AF", "U+03CC", "U+03CD", "U+03CE",
    "U+03B1", "U+03B2", "U+03B3", "U+03B4", "U+03B5", "U+03B6", "U+03B7",
    "U+03B8", "U+03B9", "U+03BA", "U+03BB", "U+03BC", "U+03BD", "U+03BE",
    "U+03BF", "U+03C0", "U+03C1", "U+03C3", "U+03C4", "U+03C5", "U+03C6",
    "U+03C7", "U+03C8", "U+03C9", "U+03CA", "U+03CB", "U+03D7", "U+03D9",
    "U+03DB", "U+03DD", "U+03DF", "U+03E1", "U+03E3", "U+03E5", "U+03E7",
    "U+03E9", "U+03EB", "U+03ED", "U+03EF", "U+03B8", "U+03F8", "U+03F2",
    "U+03FB", "U+037B", "U+037C", "U+037D", "U+0450", "U+0451", "U+0452",
    "U+0453", "U+0454", "U+0455", "U+0456", "U+0457", "U+0458", "U+0459",
    "U+045A", "U+045B", "U+045C", "U+045D", "U+045E", "U+045F", "U+0430",
    "U+0431", "U+0432", "U+0433", "U+0434", "U+0435", "U+0436", "U+0437",
    "U+0438", "U+0439", "U+043A", "U+043B", "U+043C", "U+043D", "U+043E",
    "U+043F", "U+0440", "U+0441", "U+0442", "U+0443", "U+0444", "U+0445",
    "U+0446", "U+0447", "U+0448", "U+0449", "U+044A", "U+044B", "U+044C",
    "U+044D", "U+044E", "U+044F", "U+0461", "U+0463", "U+0465", "U+0467",
    "U+0469", "U+046B", "U+046D", "U+046F", "U+0471", "U+0473", "U+0475",
    "U+0477", "U+0479", "U+047B", "U+047D", "U+047F", "U+0481", "U+048B",
    "U+048D", "U+048F", "U+0491", "U+0493", "U+0495", "U+0497", "U+0499",
    "U+049B", "U+049D", "U+049F", "U+04A1", "U+04A3", "U+04A5", "U+04A7",
    "U+04A9", "U+04AB", "U+04AD", "U+04AF", "U+04B1", "U+04B3", "U+04B5",
    "U+04B7", "U+04B9", "U+04BB", "U+04BD", "U+04BF", "U+04CF", "U+04C2",
    "U+04C4", "U+04C6", "U+04C8", "U+04CA", "U+04CC", "U+04CE", "U+04D1",
    "U+04D3", "U+04D5", "U+04D7", "U+04D9", "U+04DB", "U+04DD", "U+04DF",
    "U+04E1", "U+04E3", "U+04E5", "U+04E7", "U+04E9", "U+04EB", "U+04ED",
    "U+04EF", "U+04F1", "U+04F3", "U+04F5", "U+04F7", "U+04F9", "U+04FB",
    "U+04FD", "U+04FF", "U+0501", "U+0503", "U+0505", "U+0507", "U+0509",
    "U+050B", "U+050D", "U+050F", "U+0511", "U+0513", "U+0515", "U+0517",
    "U+0519", "U+051B", "U+051D", "U+051F", "U+0521", "U+0523", "U+0525",
    "U+0561", "U+0562", "U+0563", "U+0564", "U+0565", "U+0566", "U+0567",
    "U+0568", "U+0569", "U+056A", "U+056B", "U+056C", "U+056D", "U+056E",
    "U+056F", "U+0570", "U+0571", "U+0572", "U+0573", "U+0574", "U+0575",
    "U+0576", "U+0577", "U+0578", "U+0579", "U+057A", "U+057B", "U+057C",
    "U+057D", "U+057E", "U+057F", "U+0580", "U+0581", "U+0582", "U+0583",
    "U+0584", "U+0585", "U+0586", "U+2D00", "U+2D01", "U+2D02", "U+2D03",
    "U+2D04", "U+2D05", "U+2D06", "U+2D07", "U+2D08", "U+2D09", "U+2D0A",
    "U+2D0B", "U+2D0C", "U+2D0D", "U+2D0E", "U+2D0F", "U+2D10", "U+2D11",
    "U+2D12", "U+2D13", "U+2D14", "U+2D15", "U+2D16", "U+2D17", "U+2D18",
    "U+2D19", "U+2D1A", "U+2D1B", "U+2D1C", "U+2D1D", "U+2D1E", "U+2D1F",
    "U+2D20", "U+2D21", "U+2D22", "U+2D23", "U+2D24", "U+2D25", "U+1E01",
    "U+1E03", "U+1E05", "U+1E07", "U+1E09", "U+1E0B", "U+1E0D", "U+1E0F",
    "U+1E11", "U+1E13", "U+1E15", "U+1E17", "U+1E19", "U+1E1B", "U+1E1D",
    "U+1E1F", "U+1E21", "U+1E23", "U+1E25", "U+1E27", "U+1E29", "U+1E2B",
    "U+1E2D", "U+1E2F", "U+1E31", "U+1E33", "U+1E35", "U+1E37", "U+1E39",
    "U+1E3B", "U+1E3D", "U+1E3F", "U+1E41", "U+1E43", "U+1E45", "U+1E47",
    "U+1E49", "U+1E4B", "U+1E4D", "U+1E4F", "U+1E51", "U+1E53", "U+1E55",
    "U+1E57", "U+1E59", "U+1E5B", "U+1E5D", "U+1E5F", "U+1E61", "U+1E63",
    "U+1E65", "U+1E67", "U+1E69", "U+1E6B", "U+1E6D", "U+1E6F", "U+1E71",
    "U+1E73", "U+1E75", "U+1E77", "U+1E79", "U+1E7B", "U+1E7D", "U+1E7F",
    "U+1E81", "U+1E83", "U+1E85", "U+1E87", "U+1E89", "U+1E8B", "U+1E8D",
    "U+1E8F", "U+1E91", "U+1E93", "U+1E95", "U+00DF", "U+1EA1", "U+1EA3",
    "U+1EA5", "U+1EA7", "U+1EA9", "U+1EAB", "U+1EAD", "U+1EAF", "U+1EB1",
    "U+1EB3", "U+1EB5", "U+1EB7", "U+1EB9", "U+1EBB", "U+1EBD", "U+1EBF",
    "U+1EC1", "U+1EC3", "U+1EC5", "U+1EC7", "U+1EC9", "U+1ECB", "U+1ECD",
    "U+1ECF", "U+1ED1", "U+1ED3", "U+1ED5", "U+1ED7", "U+1ED9", "U+1EDB",
    "U+1EDD", "U+1EDF", "U+1EE1", "U+1EE3", "U+1EE5", "U+1EE7", "U+1EE9",
    "U+1EEB", "U+1EED", "U+1EEF", "U+1EF1", "U+1EF3", "U+1EF5", "U+1EF7",
    "U+1EF9", "U+1EFB", "U+1EFD", "U+1EFF", "U+1F00", "U+1F01", "U+1F02",
    "U+1F03", "U+1F04", "U+1F05", "U+1F06", "U+1F07", "U+1F10", "U+1F11",
    "U+1F12", "U+1F13", "U+1F14", "U+1F15", "U+1F20", "U+1F21", "U+1F22",
    "U+1F23", "U+1F24", "U+1F25", "U+1F26", "U+1F27", "U+1F30", "U+1F31",
    "U+1F32", "U+1F33", "U+1F34", "U+1F35", "U+1F36", "U+1F37", "U+1F40",
    "U+1F41", "U+1F42", "U+1F43", "U+1F44", "U+1F45", "U+1F51", "U+1F53",
    "U+1F55", "U+1F57", "U+1F60", "U+1F61", "U+1F62", "U+1F63", "U+1F64",
    "U+1F65", "U+1F66", "U+1F67", "U+1F80", "U+1F81", "U+1F82", "U+1F83",
    "U+1F84", "U+1F85", "U+1F86", "U+1F87", "U+1F90", "U+1F91", "U+1F92",
    "U+1F93", "U+1F94", "U+1F95", "U+1F96", "U+1F97", "U+1FA0", "U+1FA1",
    "U+1FA2", "U+1FA3", "U+1FA4", "U+1FA5", "U+1FA6", "U+1FA7", "U+1FB0",
    "U+1FB1", "U+1F70", "U+1F71", "U+1FB3", "U+1F72", "U+1F73", "U+1F74",
    "U+1F75", "U+1FC3", "U+1FD0", "U+1FD1", "U+1F76", "U+1F77", "U+1FE0",
    "U+1FE1", "U+1F7A", "U+1F7B", "U+1FE5", "U+1F78", "U+1F79", "U+1F7C",
    "U+1F7D", "U+1FF3", "U+03C9", "k", "U+00E5", "U+214E", "U+2170",
    "U+2171", "U+2172", "U+2173", "U+2174", "U+2175", "U+2176", "U+2177",
    "U+2178", "U+2179", "U+217A", "U+217B", "U+217C", "U+217D", "U+217E",
    "U+217F", "U+2184", "U+24D0", "U+24D1", "U+24D2", "U+24D3", "U+24D4",
    "U+24D5", "U+24D6", "U+24D7", "U+24D8", "U+24D9", "U+24DA", "U+24DB",
    "U+24DC", "U+24DD", "U+24DE", "U+24DF", "U+24E0", "U+24E1", "U+24E2",
    "U+24E3", "U+24E4", "U+24E5", "U+24E6", "U+24E7", "U+24E8", "U+24E9",
    "U+2C30", "U+2C31", "U+2C32", "U+2C33", "U+2C34", "U+2C35", "U+2C36",
    "U+2C37", "U+2C38", "U+2C39", "U+2C3A", "U+2C3B", "U+2C3C", "U+2C3D",
    "U+2C3E", "U+2C3F", "U+2C40", "U+2C41", "U+2C42", "U+2C43", "U+2C44",
    "U+2C45", "U+2C46", "U+2C47", "U+2C48", "U+2C49", "U+2C4A", "U+2C4B",
    "U+2C4C", "U+2C4D", "U+2C4E", "U+2C4F", "U+2C50", "U+2C51", "U+2C52",
    "U+2C53", "U+2C54", "U+2C55", "U+2C56", "U+2C57", "U+2C58", "U+2C59",
    "U+2C5A", "U+2C5B", "U+2C5C", "U+2C5D", "U+2C5E", "U+2C61", "U+026B",
    "U+1D7D", "U+027D", "U+2C68", "U+2C6A", "U+2C6C", "U+0251", "U+0271",
    "U+0250", "U+0252", "U+2C73", "U+2C76", "U+023F", "U+0240", "U+2C81",
    "U+2C83", "U+2C85", "U+2C87", "U+2C89", "U+2C8B", "U+2C8D", "U+2C8F",
    "U+2C91", "U+2C93", "U+2C95", "U+2C97", "U+2C99", "U+2C9B", "U+2C9D",
    "U+2C9F", "U+2CA1", "U+2CA3", "U+2CA5", "U+2CA7", "U+2CA9", "U+2CAB",
    "U+2CAD", "U+2CAF", "U+2CB1", "U+2CB3", "U+2CB5", "U+2CB7", "U+2CB9",
    "U+2CBB", "U+2CBD", "U+2CBF", "U+2CC1", "U+2CC3", "U+2CC5", "U+2CC7",
    "U+2CC9", "U+2CCB", "U+2CCD", "U+2CCF", "U+2CD1", "U+2CD3", "U+2CD5",
    "U+2CD7", "U+2CD9", "U+2CDB", "U+2CDD", "U+2CDF", "U+2CE1", "U+2CE3",
    "U+2CEC", "U+2CEE", "U+A641", "U+A643", "U+A645", "U+A647", "U+A649",
    "U+A64B", "U+A64D", "U+A64F", "U+A651", "U+A653", "U+A655", "U+A657",
    "U+A659", "U+A65B", "U+A65D", "U+A65F", "U+A663", "U+A665", "U+A667",
    "U+A669", "U+A66B", "U+A66D", "U+A681", "U+A683", "U+A685", "U+A687",
    "U+A689", "U+A68B", "U+A68D", "U+A68F", "U+A691", "U+A693", "U+A695",
    "U+A697", "U+A723", "U+A725", "U+A727", "U+A729", "U+A72B", "U+A72D",
    "U+A72F", "U+A733", "U+A735", "U+A737", "U+A739", "U+A73B", "U+A73D",
    "U+A73F", "U+A741", "U+A743", "U+A745", "U+A747", "U+A749", "U+A74B",
    "U+A74D", "U+A74F", "U+A751", "U+A753", "U+A755", "U+A757", "U+A759",
    "U+A75B", "U+A75D", "U+A75F", "U+A761", "U+A763", "U+A765", "U+A767",
    "U+A769", "U+A76B", "U+A76D", "U+A76F", "U+A77A", "U+A77C", "U+1D79",
    "U+A77F", "U+A781", "U+A783", "U+A785", "U+A787", "U+A78C", "U+FF41",
    "U+FF42", "U+FF43", "U+FF44", "U+FF45", "U+FF46", "U+FF47", "U+FF48",
    "U+FF49", "U+FF4A", "U+FF4B", "U+FF4C", "U+FF4D", "U+FF4E", "U+FF4F",
    "U+FF50", "U+FF51", "U+FF52", "U+FF53", "U+FF54", "U+FF55", "U+FF56",
    "U+FF57", "U+FF58", "U+FF59", "U+FF5A", "U+10428", "U+10429",
    "U+1042A", "U+1042B", "U+1042C", "U+1042D", "U+1042E", "U+1042F",
    "U+10430", "U+10431", "U+10432", "U+10433", "U+10434", "U+10435",
    "U+10436", "U+10437", "U+10438", "U+10439", "U+1043A", "U+1043B",
    "U+1043C", "U+1043D", "U+1043E", "U+1043F", "U+10440", "U+10441",
    "U+10442", "U+10443", "U+10444", "U+10445", "U+10446", "U+10447",
    "U+10448", "U+10449", "U+1044A", "U+1044B", "U+1044C", "U+1044D",
    "U+1044E", "U+1044F">>

\* the two tables as one mapping
UnicodeUpperSet == {UnicodeUpper[i] : i \in 1..Len(UnicodeUpper)}
UnicodeLowerOf ==
  [c \in UnicodeUpperSet |->
     UnicodeLower[CHOOSE i \in 1..Len(UnicodeUpper) : UnicodeUpper[i] = c]]

\* lower() of one character: an upper-case letter becomes its lower-case
\* letter, every other character stays; str.lower() knows the letters of
\* ASCII only
LowerChar(c) ==
  IF \E i \in 1..Len(UpperCase) : UpperCase[i] = c
  THEN LowerCase[CHOOSE i \in 1..Len(UpperCase) : UpperCase[i] = c]
  ELSE IF lp_type = "unicode" /\ c \in UnicodeUpperSet
  THEN UnicodeLowerOf[c]
  ELSE c

Lower(s) == [i \in 1..Len(s) |-> LowerChar(s[i])]

\* the \s* of a pattern compiled without re.UNICODE: the run of white
\* space at the head of s is passed over
RECURSIVE SkipWS(_)
SkipWS(s) == IF s # <<>> /\ IsSpace(Head(s)) THEN SkipWS(Tail(s)) ELSE s

RECURSIVE LStrip(_)
LStrip(s) ==
  IF s # <<>> /\ Head(s) \in StripChars THEN LStrip(Tail(s)) ELSE s

RECURSIVE RStrip(_)
RStrip(s) ==
  IF s # <<>> /\ s[Len(s)] \in StripChars
  THEN RStrip(SubSeq(s, 1, Len(s) - 1)) ELSE s

\* str.strip()
Strip(s) == RStrip(LStrip(s))

StartsWith(s, p) == Len(s) >= Len(p) /\ SubSeq(s, 1, Len(p)) = p

\* re.sub(r'\\xNote\s*', 'x', s)
RECURSIVE SubXNote(_)
SubXNote(s) ==
  IF s = <<>> THEN <<>>
  ELSE IF StartsWith(s, XNote)
       THEN <<"x">> \o SubXNote(SkipWS(SubSeq(s, Len(XNote) + 1, Len(s))))
       ELSE <<Head(s)>> \o SubXNote(Tail(s))

\* re.split('\s+', s): the pieces between runs of whitespace; a run at the
\* start or the end of s leaves an empty piece there, and '' gives ['']
RECURSIVE SplitWS(_)
SplitWS(s) ==
  IF \A i \in 1..Len(s) : ~IsSpace(s[i]) THEN <<s>>
  ELSE LET i == CHOOSE k \in 1..Len(s) :
                  IsSpace(s[k]) /\ \A m \in 1..(k - 1) : ~IsSpace(s[m])
       IN  <<SubSeq(s, 1, i - 1)>> \o SplitWS(SkipWS(SubSeq(s, i, Len(s))))

\* a slip: the pattern '<(.+)>', whose group runs on to the last '>'
FindAll_Greedy(s) ==
  LET opens == {i \in 1..Len(s) :
                  s[i] = LT /\ \E j \in (i + 2)..Len(s) : s[j] = GT}
  IN  IF opens = {} THEN <<>>
      ELSE LET i == CHOOSE a \in opens : \A b \in opens : a <= b
               closes == {j \in (i + 2)..Len(s) : s[j] = GT}
               j == CHOOSE a \in closes : \A b \in closes : a >= b
           IN  <<SubSeq(s, i + 1, j - 1)>>

\* re.findall('<([^>]+)>', s): scanning left to right, a '<', then the
\* longest run of characters other than '>', which must be non-empty and be
\* followed by a '>'; the scan resumes after that '>'
RECURSIVE FindAll(_)
FindAll(s) ==
  IF s = <<>> THEN <<>>
  ELSE IF Head(s) # LT THEN FindAll(Tail(s))
  ELSE IF \A k \in 2..Len(s) : s[k] # GT THEN FindAll(Tail(s))
  ELSE LET j == CHOOSE k \in 2..Len(s) :
                  s[k] = GT /\ \A m \in 2..(k - 1) : s[m] # GT
       IN  IF j = 2 THEN FindAll(Tail(s))
           ELSE <<SubSeq(s, 2, j - 1)>> \o FindAll(SubSeq(s, j + 1, Len(s)))

\* a slip: a notation without brackets is taken as one chord
parseChords_Whole(lpstring) ==
  IF FindAll(Strip(lpstring)) = <<>> THEN <<Strip(lpstring)>>
  ELSE FindAll(Strip(lpstring))

\* ExerciseLilyPond.parseChords
parseChords(lpstring) == FindAll(Strip(lpstring))

\* ------------------------------------------------- constants of parseChord
notes == <<"c", "d", "e", "f", "g", "a", "b">>
NoteNames == {notes[i] : i \in 1..Len(notes)}
note_pitch(n) ==
  CASE n = "c" -> 0 [] n = "d" -> 2 [] n = "e" -> 4 [] n = "f" -> 5
    [] n = "g" -> 7 [] n = "a" -> 9 [] n = "b" -> 11
\* notes.index(n), counted from 0
NoteIndex(n) == (CHOOSE i \in 1..Len(notes) : notes[i] = n) - 1
up == "'"
down == ","
sharp == "s"
flat == "f"
hidden_note_symbol == "x"
DefaultOctave == 4

Abs(n) == IF n < 0 THEN -n ELSE n

\* the normalisation of the chord string at the head of parseChord
NormalizeLab(chordstring) == Strip(Lower(SubXNote(chordstring)))
NormalizeHarmony(chordstring) == Lower(SubXNote(chordstring))

\* a slip: only the first unrecognized character is reported
CheckRest_First(tokens) ==
  LET r == SelectSeq(tokens,
             LAMBDA c : c \notin ({up, down, sharp, flat} \cup Digits))
  IN  IF r = <<>> THEN <<>> ELSE <<Head(r)>>

\* re.sub("'|,|s|f|\d", '', tokens): what is left is the residue
CheckRest(tokens) ==
  SelectSeq(tokens, LAMBDA c : c \notin ({up, down, sharp, flat} \cup Digits))

\* re.findall("('|,|\d)", tokens) and re.findall('(s|f)', tokens)
OctaveMarks(tokens) == SelectSeq(tokens, LAMBDA c : c \in ({up, down} \cup Digits))
Accidentals(tokens) == SelectSeq(tokens, LAMBDA c : c \in {sharp, flat})

\* a slip: only the first accidental is counted
PitchChange_First(accs) ==
  IF accs = <<>> THEN 0 ELSE IF Head(accs) = sharp THEN 1 ELSE -1

RECURSIVE PitchChange(_)
PitchChange(accs) ==
  IF accs = <<>> THEN 0
  ELSE (IF Head(accs) = sharp THEN 1 ELSE -1) + PitchChange(Tail(accs))

InvalidNoteError(pitch_entry, chordstring) ==
  [kind |-> "invalid_note", entry |-> pitch_entry, chord |-> chordstring,
   residue |-> <<>>]

UnrecognizedError(pitch_entry, chordstring, check_rest) ==
  [kind |-> "unrecognized", entry |-> pitch_entry, chord |-> chordstring,
   residue |-> check_rest]

\* the head of one loop iteration, the same in both copies: the hidden
\* marker, the note name and the check of the remaining characters.
\* tokens[0] on an empty entry is an IndexError.
EntryHead(pitch_entry, chordstring) ==
  IF pitch_entry = <<>> THEN [status |-> "IndexError"]
  ELSE LET isHidden == (Head(pitch_entry) = hidden_note_symbol)
           tokens == IF isHidden THEN Tail(pitch_entry) ELSE pitch_entry
       IN  IF tokens = <<>> \/ Head(tokens) \notin NoteNames
           THEN [status |-> "error",
                 error |-> InvalidNoteError(pitch_entry, chordstring)]
           ELSE IF CheckRest(Tail(tokens)) # <<>>
           THEN [status |-> "error",
                 error |-> UnrecognizedError(pitch_entry, chordstring,
                                             CheckRest(Tail(tokens)))]
           ELSE [status |-> "ok", hidden |-> isHidden,
                 note_name |-> Head(tokens), tokens |-> Tail(tokens)]

\* a slip: the raise and the lower mark are taken for one another
RECURSIVE OctaveScanLab_Swapped(_, _, _)
OctaveScanLab_Swapped(octaves, octave, octave_change) ==
  IF octaves = <<>> THEN <<octave, octave_change>>
  ELSE IF Head(octaves) = down
       THEN OctaveScanLab_Swapped(Tail(octaves), octave, octave_change + 1)
  ELSE IF Head(octaves) = up
       THEN OctaveScanLab_Swapped(Tail(octaves), octave, octave_change - 1)
  ELSE OctaveScanLab_Swapped(Tail(octaves), DigitVal(Head(octaves)),
                             octave_change)

\* lab: the loop over the octave marks; o = <<octave, octave_change>>
RECURSIVE OctaveScanLab(_, _, _)
OctaveScanLab(octaves, octave, octave_change) ==
  IF octaves = <<>> THEN <<octave, octave_change>>
  ELSE IF Head(octaves) = up
       THEN OctaveScanLab(Tail(octaves), octave, octave_change + 1)
  ELSE IF Head(octaves) = down
       THEN OctaveScanLab(Tail(octaves), octave, octave_change - 1)
  ELSE OctaveScanLab(Tail(octaves), DigitVal(Head(octaves)), octave_change)

\* a slip: the octave is assigned the change where it is to be raised by it
EntryOctaveLab_ChangeOnly(tokens, start_octave) ==
  OctaveScanLab(OctaveMarks(tokens), start_octave, 0)[2]

\* lab: the octave of an entry: octave += octave_change after the scan
EntryOctaveLab(tokens, start_octave) ==
  LET o == OctaveScanLab(OctaveMarks(tokens), start_octave, 0)
  IN  o[1] + o[2]

\* harmony: the loop over the octave marks, which a digit ends with
\* octave_change = 0 (the digit's own value is overwritten afterwards)
RECURSIVE OctaveScanHarmony(_, _)
OctaveScanHarmony(octaves, octave_change) ==
  IF octaves = <<>> THEN octave_change
  ELSE IF Head(octaves) = up
       THEN OctaveScanHarmony(Tail(octaves), octave_change + 1)
  ELSE IF Head(octaves) = down
       THEN OctaveScanHarmony(Tail(octaves), octave_change - 1)
  ELSE 0

\* harmony: the octave change that keeps the note within a fifth of the
\* previous note of the chord
IntervalChange(previous_note, note_name) ==
  IF previous_note = "none" THEN 0
  ELSE LET d == NoteIndex(previous_note) - NoteIndex(note_name)
           distance == IF d < 0 THEN d - 1 ELSE d + 1
       IN  IF Abs(distance) > 5
           THEN (IF distance < 0 THEN -1 ELSE 1)
           ELSE 0

\* harmony: octave = saved_octaves[0] + octave_change
EntryOctaveHarmony(tokens, saved_octaves, previous_note, note_name) ==
  saved_octaves[1]
    + OctaveScanHarmony(OctaveMarks(tokens),
                        IntervalChange(previous_note, note_name))

MidiPitch(octave, note_name, tokens) ==
  (octave * 12) + note_pitch(note_name) + PitchChange(Accidentals(tokens))

\* ----------------------------------------------------------------- state
VARIABLES
  variant,        \* which copy of objects.py runs: "lab" or "harmony"
  in_type,        \* data['type'] as handed in ("absent" when missing)
  lily_present,   \* "lilypond_chords" in data
  lpstring,       \* data['lilypond_chords']
  in_chord,       \* data['chord'] as handed in: [present, value]
  pc,             \* where the construction of the record stands ("load":
                  \* ExerciseFile.load is about to read the data)
  exception,      \* the exception that left the constructor, or "none"
  data_type,      \* data['type']
  data_chord,     \* data['chord']: [present, value]
  def_valid,      \* ExerciseDefinition.is_valid / Exercise.is_valid
  def_errors,     \* ExerciseDefinition.errors / Exercise.errors
  is_valid,       \* ExerciseLilyPond.is_valid
  errors,         \* ExerciseLilyPond.errors
  midi,           \* ExerciseLilyPond.midi, the value parse() returned
  chords,         \* parse: the chord strings parseChords returned
  ci,             \* parse: position of the loop over chords (from 1)
  octave,         \* parse: the local variable octave
  midi_chords,    \* parse: the local variable midi_chords
  chordstring,    \* parseChord: the normalised chord string
  pitch_entries,  \* parseChord: re.split of the chord string
  idx,            \* parseChord: position of the loop over entries (from 1)
  midi_chord,     \* parseChord: {"visible": [...], "hidden": [...]}
  saved_octaves,  \* parseChord (harmony): saved_octaves
  previous_note,  \* parseChord (harmony): previous_note ("none" for None)
  save_result,    \* what ExerciseFile.save returned ("none" before a call),
                  \* or the name of the exception it raised
  load_result,    \* what ExerciseFile.load returned or raised ("none"
                  \* without a call; "reading" while it builds the record,
                  \* and still when an exception of the constructor left
                  \* it, which is in exception)
  file,           \* the exercise file and its group directory: [written,
                  \* dir, group, name, others, type, chord, lily]; written
                  \* and dir say that the file and the directory are
                  \* there, name is the number n of its file name
                  \* "%s.json" % str(n).zfill(2), others the numbers of
                  \* the other exercise files of the directory, type,
                  \* chord and lily what the file holds of these keys
                  \* (type "empty": nothing at all)
  result,         \* what createExercise returned: [status, errors]; the
                  \* status is the exception's name when it raised
  delete_result   \* the last delete call and what it returned: [call, value]

vars == <<variant, in_type, lily_present, lp_type, lpstring, in_chord, pc,
          exception, data_type, load_result,
          data_chord, def_valid, def_errors, is_valid, errors, midi, chords,
          ci, octave, midi_chords, chordstring, pitch_entries, idx,
          midi_chord, saved_octaves, previous_note, save_result, file, result,
          delete_result>>

parseVars == <<chords, ci, octave, midi_chords, chordstring, pitch_entries,
               idx, midi_chord, saved_octaves, previous_note>>
inputVars == <<variant, in_type, lily_present, lp_type, lpstring, in_chord>>
recordVars == <<data_type, data_chord, def_valid, def_errors>>
storeVars == <<save_result, load_result, file, result, delete_result>>

\* ---------------------------------------------------------------- inputs
SeqsUpTo(S, n) == UNION {[1..k -> S] : k \in 0..n}

RECURSIVE Flatten(_)
Flatten(ss) == IF ss = <<>> THEN <<>> ELSE Head(ss) \o Flatten(Tail(ss))

RECURSIVE Join(_, _)
Join(ss, sep) ==
  IF ss = <<>> THEN <<>>
  ELSE IF Len(ss) = 1 THEN Head(ss)
  ELSE Head(ss) \o sep \o Join(Tail(ss), sep)

\* free-form notation: any sequence of these pieces
RawAtoms == {<<LT>>, <<GT>>, <<SP>>, <<"c">>, <<"x">>, XNote}
RawInputs == {Flatten(a) : a \in SeqsUpTo(RawAtoms, MaxRawLen)}

\* one chord of one entry: optional hidden symbol, a letter, some marks
EntryLetters == {"c", "b", "f", "C", "q"}
MarkChars == {up, down, sharp, flat, "5", "q"}
EntryInputs ==
  {<<LT>> \o h \o <<l>> \o m \o <<GT>> :
     h \in {<<>>, <<hidden_note_symbol>>}, l \in EntryLetters,
     m \in SeqsUpTo(MarkChars, MaxMarks)}

\* a chord written as LilyPond does, with a duration: "<c b>1"
Chord(es) == <<LT>> \o Join(es, <<SP>>) \o <<GT, "1">>

\* several chords: the first entry of a chord is a note, a note a seventh
\* away from it or a bad entry, the entries after it are a note or a bad one
CorePool == {<<"c">>, <<"b">>, <<"c", "q">>}
FollowPool == {<<"c">>, <<"c", "q">>}
CoreChords ==
  {Chord(<<e>> \o es) :
     e \in CorePool, es \in SeqsUpTo(FollowPool, MaxEntries - 1)}
ChordInputs == {Join(cs, <<SP>>) : cs \in SeqsUpTo(CoreChords, MaxChords)}

\* one chord of more kinds of entry
WidePool == {<<"c">>, <<"b">>, <<"a", "'">>, <<"x", "c">>, <<"c", "5">>,
             <<"c", "q">>}
WideInputs == {Chord(es) : es \in SeqsUpTo(WidePool, MaxWideEntries) \ {<<>>}}

\* two entries, the second in upper case, with white space of every kind
\* before, between and after them, and a hidden-note marker followed by it
Pad == {<<>>} \cup {<<w>> : w \in Whitespace}
SpacedInputs ==
  {<<LT>> \o l \o <<"c">> \o <<w>> \o <<"D">> \o t \o <<GT>> :
     l \in Pad, w \in Whitespace, t \in Pad}
    \cup {<<LT>> \o XNote \o <<w>> \o <<"A", "S">> \o <<GT>> : w \in Whitespace}

\* characters outside the letters, digits and marks: control characters
\* and bytes of a str, and code points a unicode string alone can hold
ByteChars == {"U+001C", "U+001F", "U+0085", "U+00A0", "U+00C9"}
CodePoints == ByteChars \cup {"U+2003", "U+3000", "U+0130", "U+212A"}

\* the note c with such characters before and after it, two notes with
\* one between them, and one before and after the brackets
ExtInputs(chars) ==
  {<<LT>> \o a \o <<"c">> \o b \o <<GT>> :
     a \in {<<>>} \cup {<<x>> : x \in chars},
     b \in {<<>>} \cup {<<x>> : x \in chars}}
    \cup {<<LT, "c", x, "d", GT>> : x \in chars}
    \cup {<<x, LT, "c", GT>> : x \in chars}
    \cup {<<LT, "c", GT, x>> : x \in chars}

Notations ==
  RawInputs \cup EntryInputs \cup ChordInputs \cup WideInputs
    \cup SpacedInputs \cup ExtInputs(ByteChars)

\* the data handed in: with the type left out any of the notations, with a
\* type given the one-entry chords, or no notation at all
NotationsFor(type, present, string_type) ==
  IF ~present THEN {<<>>}
  ELSE IF string_type = "unicode"
  THEN (IF type = "absent" THEN SpacedInputs \cup ExtInputs(CodePoints)
                           ELSE {})
  ELSE IF type = "absent" THEN Notations
  ELSE EntryInputs

EmptyMidiChord == [visible |-> <<>>, hidden |-> <<>>]
NoChord == [present |-> FALSE, value |-> <<>>]
NoDelete == [call |-> "none", value |-> "none"]

\* a 'chord' key the data holds before the record is built
OldChord ==
  [present |-> TRUE, value |-> <<[visible |-> <<52>>, hidden |-> <<>>]>>]

\* getNextFileName: max_tries = 99
max_tries == 99

\* the disk with neither the exercise file, which is 01.json, nor its
\* group directory
NoFile == [written |-> FALSE, dir |-> FALSE, group |-> <<>>, name |-> 1,
           others |-> {}, type |-> "absent", chord |-> NoChord,
           lily |-> FALSE]

\* the name of the group directory that is on the disk before the first
\* call, and the exercise files it may hold besides 01.json: none,
\* 02.json, or all of 02.json to 99.json
Groups == {<<"g", "1">>}
OtherFiles == {{}, {2}, 2..max_tries}

\* a group directory without the exercise file, and one with an exercise
\* file that an earlier save wrote
DirOnly(group, others) ==
  [NoFile EXCEPT !.dir = TRUE, !.group = group, !.others = others]
OldFile(group, others) ==
  [DirOnly(group, others) EXCEPT !.written = TRUE, !.type = "matching",
                                 !.chord = OldChord, !.lily = TRUE]

\* what the disk may look like before the first call
EnvFiles ==
  {NoFile} \cup {DirOnly(g, o) : g \in Groups, o \in OtherFiles}
           \cup {OldFile(g, o) : g \in Groups, o \in OtherFiles}

\* the notations tried with a 'chord' key in the data or files on the
\* disk: a valid one, an invalid one, and valid ones after a character
\* which as a byte of a str is not UTF-8 and after two which are
EnvNotations ==
  {<<LT, "c", GT>>, <<LT, "c", "q", GT>>, <<"U+00A0", LT, "c", GT>>,
   <<"U+00C3", "U+0089", LT, "c", GT>>}

\* the file_name argument of ExerciseFile.create: left out (None), or
\* the name of number n
FileNameInputs ==
  {[given |-> FALSE, n |-> 0], [given |-> TRUE, n |-> 1],
   [given |-> TRUE, n |-> 2]}

\* data['group_name']: left out, None, or a name
GroupNameInputs ==
  {[kind |-> "absent", value |-> <<>>], [kind |-> "none", value |-> <<>>],
   [kind |-> "name", value |-> <<"g", "/", "1">>],
   [kind |-> "name", value |-> <<"g", "1">>]}

\* what the file system answers in the try block of save: it takes the
\* write, os.makedirs fails with OSError, open() fails with IOError, or
\* f.write() or the close fails with IOError after open() made the file
FileSystemAnswers == {"ok", "OSError", "open IOError", "write IOError"}

\* the data a record is built from: handed to the constructor as it is
\* with nothing else on the disk and any of the notations; or with a
\* 'chord' key or files there already; or read by ExerciseFile.load from
\* the exercise file (json.loads gives unicode strings), which may as well
\* be missing or empty
Init ==
  /\ variant \in {"lab", "harmony"}
  /\ in_type \in {"absent", "analytical"}
  /\ lily_present \in BOOLEAN
  /\ lp_type \in {"str", "unicode"}
  /\ lily_present \/ lp_type = "str"
  /\ \/ /\ pc = "start"
        /\ in_chord = NoChord
        /\ file = NoFile
        /\ lpstring \in NotationsFor(in_type, lily_present, lp_type)
     \/ /\ pc = "start"
        /\ in_chord \in {NoChord, OldChord}
        /\ file \in EnvFiles
        /\ lpstring \in (IF lily_present THEN EnvNotations ELSE {<<>>})
     \/ /\ pc = "load"
        /\ lily_present => lp_type = "unicode"
        /\ in_chord \in {NoChord, OldChord}
        /\ lpstring \in (IF lily_present THEN EnvNotations ELSE {<<>>})
        /\ \E g \in Groups :
             file = [written |-> TRUE, dir |-> TRUE, group |-> g,
                     name |-> 1, others |-> {}, type |-> in_type,
                     chord |-> in_chord, lily |-> lily_present]
     \/ /\ pc = "load"
        /\ in_type = "absent"
        /\ ~lily_present
        /\ in_chord = NoChord
        /\ lpstring = <<>>
        /\ file \in {NoFile}
             \cup {[DirOnly(g, {}) EXCEPT !.written = TRUE,
                                          !.type = "empty"] : g \in Groups}
  /\ exception = "none"
  /\ data_type = in_type
  /\ data_chord = in_chord
  /\ def_valid = TRUE
  /\ def_errors = <<>>
  /\ is_valid = TRUE
  /\ errors = <<>>
  /\ midi = <<>>
  /\ chords = <<>>
  /\ ci = 1
  /\ octave = DefaultOctave
  /\ midi_chords = <<>>
  /\ chordstring = <<>>
  /\ pitch_entries = <<>>
  /\ idx = 1
  /\ midi_chord = EmptyMidiChord
  /\ saved_octaves = <<DefaultOctave>>
  /\ previous_note = "none"
  /\ save_result = "none"
  /\ load_result = "none"
  /\ result = [status |-> "none", errors |-> <<>>]
  /\ delete_result = NoDelete

\* --------------------------------------------------------------- actions

\* ExerciseFile.load up to the construction of the record: open() of a
\* file that is missing or cannot be read is an IOError, raised again as
\* ExerciseFileError; json.loads of an empty file is a ValueError, which
\* nothing catches; else the record is built from what the file holds
Load ==
  /\ pc = "load"
  /\ \E readable \in BOOLEAN :
       IF ~file.written \/ ~readable
       THEN /\ load_result' = "ExerciseFileError"
            /\ pc' = "load_raised"
       ELSE IF file.type = "empty"
       THEN /\ load_result' = "ValueError"
            /\ pc' = "load_raised"
       ELSE /\ load_result' = "reading"
            /\ pc' = "start"
  /\ UNCHANGED <<inputVars, recordVars, exception, is_valid, errors, midi,
                 parseVars, save_result, file, result, delete_result>>

\* ExerciseFile.load after the record was built: "return True"
LoadReturn ==
  /\ pc = "processed"
  /\ load_result = "reading"
  /\ load_result' = "True"
  /\ UNCHANGED <<inputVars, recordVars, pc, exception, is_valid, errors,
                 midi, parseVars, save_result, file, result, delete_result>>

\* the record is built and the call that built it is over
Built == pc = "processed" /\ load_result # "reading"

\* ExerciseDefinition.processData / Exercise.processData up to the point
\* where the notation is handed to ExerciseLilyPond. Without a
\* "lilypond_chords" field lab is done; harmony goes on to read
\* self.lilypond, which was never set: AttributeError.
ProcessDataBegin ==
  /\ pc = "start"
  /\ data_type' = IF data_type = "absent" THEN "matching" ELSE data_type
  /\ IF lily_present
     THEN /\ pc' = "parse"
          /\ UNCHANGED exception
     ELSE IF variant = "lab"
          THEN /\ pc' = "processed"
               /\ UNCHANGED exception
          ELSE /\ pc' = "raised"
               /\ exception' = "AttributeError"
  /\ UNCHANGED <<inputVars, data_chord, def_valid, def_errors, is_valid,
                 errors, midi, parseVars, storeVars>>

\* ExerciseLilyPond.__init__ and the head of parse()
ParseBegin ==
  /\ pc = "parse"
  /\ errors' = <<>>
  /\ is_valid' = TRUE
  /\ octave' = DefaultOctave
  /\ midi_chords' = <<>>
  /\ chords' = parseChords(lpstring)
  /\ ci' = 1
  /\ pc' = "chords"
  /\ UNCHANGED <<inputVars, recordVars, exception, midi, chordstring,
                 pitch_entries, idx, midi_chord, saved_octaves,
                 previous_note, storeVars>>

\* parse() takes the next chord string and parseChord() normalises and
\* splits it
BeginChord ==
  /\ pc = "chords"
  /\ ci <= Len(chords)
  /\ LET cs == IF variant = "lab" THEN NormalizeLab(chords[ci])
                                  ELSE NormalizeHarmony(chords[ci])
     IN  /\ chordstring' = cs
         /\ pitch_entries' = SplitWS(cs)
  /\ saved_octaves' = <<octave>>
  /\ midi_chord' = EmptyMidiChord
  /\ previous_note' = "none"
  /\ idx' = 1
  /\ pc' = "entry"
  /\ UNCHANGED <<inputVars, recordVars, exception, is_valid, errors, midi,
                 chords, ci, octave, midi_chords, storeVars>>

\* a slip: the list is overwritten by the new error
RecordError_Replace(errs, e) == <<e>>

\* self.errors.append(...)
RecordError(errs, e) == Append(errs, e)

\* a slip: lab leaves the loop as harmony does, without raising
ErrorExitLab_Break == "break"

\* a slip: harmony gives up the whole parse as lab does
ErrorExitHarmony_Abort == "abort"

\* where a bad entry sends control: lab raises ExerciseLilyPondError, which
\* parse() catches; harmony breaks out of the loop over the entries
ErrorExitLab == "abort"
ErrorExitHarmony == "break"

\* lab: the pitch of a well-formed entry, h = EntryHead of the entry
EntryPitchLab(h, start_octave) ==
  MidiPitch(EntryOctaveLab(h.tokens, start_octave), h.note_name, h.tokens)

\* harmony: the pitch of a well-formed entry
EntryPitchHarmony(h, so, prev) ==
  MidiPitch(EntryOctaveHarmony(h.tokens, so, prev, h.note_name),
            h.note_name, h.tokens)

\* a slip: midi_entry is never switched to the hidden list
AppendPitch_AllVisible(mc, isHidden, midi_pitch) ==
  [mc EXCEPT !.visible = Append(@, midi_pitch)]

\* a slip: a hidden pitch is appended to the visible list as well
AppendPitch_Both(mc, isHidden, midi_pitch) ==
  IF isHidden THEN [mc EXCEPT !.hidden = Append(@, midi_pitch),
                              !.visible = Append(@, midi_pitch)]
              ELSE [mc EXCEPT !.visible = Append(@, midi_pitch)]

\* midi_entry.append(midi_pitch), midi_entry being one of the two lists
AppendPitch(mc, isHidden, midi_pitch) ==
  IF isHidden THEN [mc EXCEPT !.hidden = Append(@, midi_pitch)]
              ELSE [mc EXCEPT !.visible = Append(@, midi_pitch)]

\* lab: one iteration of the loop over pitch entries. A bad entry records
\* its error and raises ExerciseLilyPondError.
ParseEntryLab ==
  /\ pc = "entry"
  /\ variant = "lab"
  /\ idx <= Len(pitch_entries)
  /\ LET h == EntryHead(pitch_entries[idx], chordstring)
     IN  CASE h.status = "IndexError" ->
                /\ pc' = "raised"
                /\ exception' = "IndexError"
                /\ UNCHANGED <<is_valid, errors, midi_chord, idx>>
           [] h.status = "error" ->
                /\ is_valid' = FALSE
                /\ errors' = RecordError(errors, h.error)
                /\ pc' = ErrorExitLab
                /\ UNCHANGED <<exception, midi_chord, idx>>
           [] h.status = "ok" ->
                /\ midi_chord' =
                     AppendPitch(midi_chord, h.hidden,
                                 EntryPitchLab(h, octave))
                /\ idx' = idx + 1
                /\ UNCHANGED <<pc, exception, is_valid, errors>>
  /\ UNCHANGED <<inputVars, recordVars, midi, chords, ci, octave,
                 midi_chords, chordstring, pitch_entries, saved_octaves,
                 previous_note, storeVars>>

\* harmony: one iteration of the loop over pitch entries. A bad entry
\* records its error and breaks out of the loop.
ParseEntryHarmony ==
  /\ pc = "entry"
  /\ variant = "harmony"
  /\ idx <= Len(pitch_entries)
  /\ LET h == EntryHead(pitch_entries[idx], chordstring)
     IN  CASE h.status = "IndexError" ->
                /\ pc' = "raised"
                /\ exception' = "IndexError"
                /\ UNCHANGED <<is_valid, errors, midi_chord, idx,
                               saved_octaves, previous_note>>
           [] h.status = "error" ->
                /\ is_valid' = FALSE
                /\ errors' = RecordError(errors, h.error)
                /\ pc' = ErrorExitHarmony
                /\ UNCHANGED <<exception, midi_chord, idx, saved_octaves,
                               previous_note>>
           [] h.status = "ok" ->
                LET o == EntryOctaveHarmony(h.tokens, saved_octaves,
                                            previous_note, h.note_name)
                IN  /\ saved_octaves' = Append(saved_octaves, o)
                    /\ midi_chord' =
                         AppendPitch(midi_chord, h.hidden,
                           EntryPitchHarmony(h, saved_octaves, previous_note))
                    /\ previous_note' = h.note_name
                    /\ idx' = idx + 1
                    /\ UNCHANGED <<pc, exception, is_valid, errors>>
  /\ UNCHANGED <<inputVars, recordVars, midi, chords, ci, octave,
                 midi_chords, chordstring, pitch_entries, storeVars>>

\* harmony: the octave parseChord hands back to parse()
ReturnedOctave(so) == IF Len(so) = 1 THEN so[1] ELSE so[2]

\* parseChord() returns (the loop is over, or harmony broke out of it) and
\* parse() appends the chord
EndChord ==
  /\ \/ pc = "entry" /\ idx > Len(pitch_entries)
     \/ pc = "break"
  /\ midi_chords' = Append(midi_chords, midi_chord)
  /\ octave' = IF variant = "harmony" THEN ReturnedOctave(saved_octaves)
                                      ELSE octave
  /\ ci' = ci + 1
  /\ pc' = "chords"
  /\ UNCHANGED <<inputVars, recordVars, exception, is_valid, errors, midi,
                 chords, chordstring, pitch_entries, idx, midi_chord,
                 saved_octaves, previous_note, storeVars>>

\* lab: parse() catches ExerciseLilyPondError and returns []
ParseAbort ==
  /\ pc = "abort"
  /\ midi' = <<>>
  /\ pc' = "parsed"
  /\ UNCHANGED <<inputVars, recordVars, exception, is_valid, errors,
                 parseVars, storeVars>>

\* parse() returns midi_chords after the last chord
ParseReturn ==
  /\ pc = "chords"
  /\ ci > Len(chords)
  /\ midi' = midi_chords
  /\ pc' = "parsed"
  /\ UNCHANGED <<inputVars, recordVars, exception, is_valid, errors,
                 parseVars, storeVars>>

\* processData after the ExerciseLilyPond was built
ProcessDataEnd ==
  /\ pc = "parsed"
  /\ IF is_valid
     THEN /\ data_chord' = [present |-> TRUE, value |-> midi]
          /\ UNCHANGED <<def_valid, def_errors>>
     ELSE /\ def_valid' = FALSE
          /\ def_errors' = def_errors \o errors
          /\ UNCHANGED data_chord
  /\ pc' = "processed"
  /\ UNCHANGED <<inputVars, data_type, exception, is_valid, errors, midi,
                 parseVars, storeVars>>

\* the characters re.sub(r'[^a-zA-Z0-9._\-]', '', group_name) keeps
GroupNameChars ==
  {UpperCase[i] : i \in 1..Len(UpperCase)}
    \cup {LowerCase[i] : i \in 1..Len(LowerCase)}
    \cup Digits \cup {".", "_", "-"}

\* ExerciseFile.create: the scrubbed name of a group that is not there yet
ScrubGroupName(group_name) ==
  SelectSeq(group_name, LAMBDA c : c \in GroupNameChars)

\* the bytes of a str from 0x80 on, in order
HighBytes ==
  <<"U+0080", "U+0081", "U+0082", "U+0083", "U+0084", "U+0085", "U+0086",
    "U+0087", "U+0088", "U+0089", "U+008A", "U+008B", "U+008C", "U+008D",
    "U+008E", "U+008F", "U+0090", "U+0091", "U+0092", "U+0093", "U+0094",
    "U+0095", "U+0096", "U+0097", "U+0098", "U+0099", "U+009A", "U+009B",
    "U+009C", "U+009D", "U+009E", "U+009F", "U+00A0", "U+00A1", "U+00A2",
    "U+00A3", "U+00A4", "U+00A5", "U+00A6", "U+00A7", "U+00A8", "U+00A9",
    "U+00AA", "U+00AB", "U+00AC", "U+00AD", "U+00AE", "U+00AF", "U+00B0",
    "U+00B1", "U+00B2", "U+00B3", "U+00B4", "U+00B5", "U+00B6", "U+00B7",
    "U+00B8", "U+00B9", "U+00BA", "U+00BB", "U+00BC", "U+00BD", "U+00BE",
    "U+00BF", "U+00C0", "U+00C1", "U+00C2", "U+00C3", "U+00C4", "U+00C5",
    "U+00C6", "U+00C7", "U+00C8", "U+00C9", "U+00CA", "U+00CB", "U+00CC",
    "U+00CD", "U+00CE", "U+00CF", "U+00D0", "U+00D1", "U+00D2", "U+00D3",
    "U+00D4", "U+00D5", "U+00D6", "U+00D7", "U+00D8", "U+00D9", "U+00DA",
    "U+00DB", "U+00DC", "U+00DD", "U+00DE", "U+00DF", "U+00E0", "U+00E1",
    "U+00E2", "U+00E3", "U+00E4", "U+00E5", "U+00E6", "U+00E7", "U+00E8",
    "U+00E9", "U+00EA", "U+00EB", "U+00EC", "U+00ED", "U+00EE", "U+00EF",
    "U+00F0", "U+00F1", "U+00F2", "U+00F3", "U+00F4", "U+00F5", "U+00F6",
    "U+00F7", "U+00F8", "U+00F9", "U+00FA", "U+00FB", "U+00FC", "U+00FD",
    "U+00FE", "U+00FF">>

HighByteSet == {HighBytes[i] : i \in 1..Len(HighBytes)}
HighByteValue ==
  [c \in HighByteSet |->
     127 + (CHOOSE i \in 1..Len(HighBytes) : HighBytes[i] = c)]

\* the value of one byte of a str; below 0x80 only that it is below
ByteValue(c) == IF c \in HighByteSet THEN HighByteValue[c] ELSE 0

\* json's HAS_UTF8.search(s): a byte from 0x80 on is in the str
HasHighByte(s) == \E i \in 1..Len(s) : s[i] \in HighByteSet

\* str.decode('utf-8') goes through: every byte from 0x80 on is part of a
\* well-formed sequence of two, three or four bytes
RECURSIVE ValidUTF8(_)
ValidUTF8(s) ==
  IF s = <<>> THEN TRUE
  ELSE LET b == ByteValue(Head(s))
           n == IF b < 128 THEN 0
                ELSE IF b \in 194..223 THEN 1
                ELSE IF b \in 224..239 THEN 2
                ELSE IF b \in 240..244 THEN 3
                ELSE -1
       IN  /\ n >= 0
           /\ Len(s) >= n + 1
           /\ \A i \in 2..(n + 1) : ByteValue(s[i]) \in 128..191
           /\ b = 224 => ByteValue(s[2]) >= 160
           /\ b = 240 => ByteValue(s[2]) >= 144
           /\ b = 244 => ByteValue(s[2]) <= 143
           /\ ValidUTF8(SubSeq(s, n + 2, Len(s)))

\* ExerciseDefinition.asJSON / Exercise.asJSON returns: json.dumps decodes
\* a str of the data that has bytes from 0x80 on as UTF-8, and a notation
\* that is such a str but not UTF-8 makes it raise UnicodeDecodeError
Encodable ==
  \/ ~lily_present
  \/ lp_type = "unicode"
  \/ ~HasHighByte(lpstring)
  \/ ValidUTF8(lpstring)

\* the numbers of the exercise files in the group directory
FileNames(f) == f.others \cup (IF f.written THEN {f.name} ELSE {})

\* what ExerciseFile.save writes into the file of number n: asJSON() of
\* the record's data, in the directory of the group; the file is made, or
\* written over when it was there, and the files of the directory with
\* another name are its others
Written(f, group, n) ==
  [f EXCEPT !.written = TRUE, !.dir = TRUE, !.group = group, !.name = n,
            !.others = FileNames(f) \ {n},
            !.type = data_type, !.chord = data_chord, !.lily = lily_present]

\* the file open(path, 'w') has made or emptied when nothing was written
\* into it: it is there and holds no record
EmptyFile(f, group, n) ==
  [f EXCEPT !.written = TRUE, !.dir = TRUE, !.group = group, !.name = n,
            !.others = FileNames(f) \ {n},
            !.type = "empty", !.chord = NoChord, !.lily = FALSE]

\* the answers of the file system save can meet: os.makedirs is called,
\* and can fail, only when the group directory is not there
AnswersFor(f) == IF f.dir THEN FileSystemAnswers \ {"OSError"}
                 ELSE FileSystemAnswers

\* the try block of ExerciseFile.save of the file of number n under the
\* answer fs of the file system: os.makedirs fails (OSError, which nothing catches); or open()
\* fails after the directory was seen or made (IOError, raised again as
\* ExerciseFileError); or asJSON() raises UnicodeDecodeError after open()
\* made the file, which nothing catches; or the write fails and leaves
\* the file empty (IOError again); or the file is written
SaveWrite(f, group, n, fs) ==
  CASE fs = "OSError" -> [file |-> f, outcome |-> "OSError"]
    [] fs = "open IOError" ->
         [file |-> [f EXCEPT !.dir = TRUE, !.group = group],
          outcome |-> "ExerciseFileError"]
    [] fs \in {"ok", "write IOError"} /\ ~Encodable ->
         [file |-> EmptyFile(f, group, n), outcome |-> "UnicodeDecodeError"]
    [] fs = "write IOError" /\ Encodable ->
         [file |-> EmptyFile(f, group, n), outcome |-> "ExerciseFileError"]
    [] fs = "ok" /\ Encodable ->
         [file |-> Written(f, group, n), outcome |-> "True"]

\* ExerciseFile.save: "if not self.exerciseDefinition.isValid(): return False"
SaveRefused(valid) == ~valid

\* ExerciseFile.save on the exercise file, whose group directory is the
\* one on the disk when there is one: without a record attached it raises
\* ExerciseFileError, an invalid record is refused with False, a valid one
\* is written unless the try block fails
Save ==
  /\ Built
  /\ \E attached \in BOOLEAN, group \in Groups, fs \in AnswersFor(file) :
       /\ file.dir => group = file.group
       /\ IF ~attached
          THEN /\ save_result' = "ExerciseFileError"
               /\ pc' = "save_raised"
               /\ UNCHANGED file
          ELSE IF SaveRefused(def_valid)
          THEN /\ save_result' = "False"
               /\ pc' = "saved"
               /\ UNCHANGED file
          ELSE LET w == SaveWrite(file, group, file.name, fs)
               IN  /\ file' = w.file
                   /\ save_result' = w.outcome
                   /\ pc' = IF w.outcome = "True" THEN "saved"
                            ELSE "save_raised"
  /\ UNCHANGED <<inputVars, recordVars, exception, is_valid, errors, midi,
                 parseVars, load_result, result, delete_result>>

\* ExerciseGroup.size of the group the repository has scanned: the
\* exercise files in the group directory
GroupSize(f) == Cardinality(FileNames(f))

\* ExerciseFile.create: the repository finds the group when a directory of
\* that name holds exercise files
GroupFound(f, name) == f.dir /\ f.group = name /\ GroupSize(f) > 0

\* ExerciseFile.create: the directory the new file goes to; lab scrubs
\* the name of a group it did not find, harmony takes the name as it is
CreateTarget(f, name) ==
  IF variant = "lab" /\ ~GroupFound(f, name) THEN ScrubGroupName(name)
  ELSE name

\* ExerciseFile.create without a usable name: lab has None for a name
\* left out and re.sub raises TypeError on it; harmony raises KeyError
\* at data['group_name'] and AttributeError at None.startswith
CreateNameError(kind) ==
  IF variant = "lab" THEN "TypeError"
  ELSE IF kind = "absent" THEN "KeyError"
  ELSE "AttributeError"

\* the while loop of getNextFileName from the number n on: the first
\* number whose file name is not in the directory, or 0 for the Exception
\* raised when the count passes max_tries
RECURSIVE NextTry(_, _)
NextTry(names, n) ==
  IF n \notin names THEN n
  ELSE IF n + 1 > max_tries THEN 0
  ELSE NextTry(names, n + 1)

\* ExerciseFile.getNextFileName(group_path, group_size)
getNextFileName(names, group_size) == NextTry(names, group_size + 1)

\* ExerciseFile.create: the files in the directory the new file goes to,
\* and the size of the group, which is 0 for a group the repository did
\* not find
TargetNames(f, name) ==
  IF f.dir /\ f.group = CreateTarget(f, name) THEN FileNames(f) ELSE {}
TargetSize(f, name) == IF GroupFound(f, name) THEN GroupSize(f) ELSE 0

\* ExerciseFile.create: the number of the file name, the one given or
\* else the one getNextFileName returns (0 when it raises)
CreateFileName(f, name, file_name) ==
  IF file_name.given THEN file_name.n
  ELSE getNextFileName(TargetNames(f, name), TargetSize(f, name))

\* ExerciseFile.create(group_name, file_name, exercise): the file it
\* leaves and how it ends, "ef" for the return of the new ExerciseFile,
\* else the exception; save is what the save() in it returned or raised,
\* "none" when create was left before it
CreateFile(f, group_name, file_name, attached, fs) ==
  IF group_name.kind # "name"
  THEN [file |-> f, save |-> "none",
        status |-> CreateNameError(group_name.kind)]
  ELSE LET n == CreateFileName(f, group_name.value, file_name)
       IN  IF n = 0
           THEN [file |-> f, save |-> "none", status |-> "Exception"]
           ELSE IF ~attached
           THEN [file |-> f, save |-> "ExerciseFileError",
                 status |-> "ExerciseFileError"]
           ELSE IF SaveRefused(def_valid)
           THEN [file |-> f, save |-> "False", status |-> "ef"]
           ELSE LET w == SaveWrite(f, CreateTarget(f, group_name.value),
                                   n, fs)
                IN  [file |-> w.file, save |-> w.outcome,
                     status |-> IF w.outcome = "True" THEN "ef"
                                ELSE w.outcome]

\* the names create is tried with: with a group directory on the disk,
\* those that lead to it
CreateNames(f) ==
  {n \in GroupNameInputs :
     n.kind = "name" /\ f.dir => CreateTarget(f, n.value) = f.group}

\* ExerciseFile.create called with the record
Create ==
  /\ Built
  /\ \E group_name \in CreateNames(file), file_name \in FileNameInputs,
        attached \in BOOLEAN, fs \in AnswersFor(file) :
       LET c == CreateFile(file, group_name, file_name, attached, fs)
       IN  /\ file' = c.file
           /\ save_result' = c.save
           /\ result' = [status |-> c.status, errors |-> <<>>]
           /\ pc' = IF c.status = "ef" THEN "created" ELSE "create_raised"
  /\ UNCHANGED <<inputVars, recordVars, exception, is_valid, errors, midi,
                 parseVars, load_result, delete_result>>

\* lab: ExerciseFileRepository.createExercise after the definition was
\* built: an invalid definition gives the error result and
\* ExerciseFile.create is not called; for a valid one it is, with no
\* file_name, and what it raises leaves createExercise
CreateExercise ==
  /\ Built
  /\ variant = "lab"
  /\ \E group_name \in CreateNames(file), fs \in AnswersFor(file) :
       IF ~def_valid
       THEN /\ result' = [status |-> "error", errors |-> def_errors]
            /\ pc' = "created"
            /\ UNCHANGED <<file, save_result>>
       ELSE LET c == CreateFile(file, group_name, [given |-> FALSE, n |-> 0],
                                TRUE, fs)
            IN  /\ file' = c.file
                /\ save_result' = c.save
                /\ IF c.status = "ef"
                   THEN /\ result' = [status |-> "success", errors |-> <<>>]
                        /\ pc' = "created"
                   ELSE /\ result' = [status |-> c.status, errors |-> <<>>]
                        /\ pc' = "create_raised"
  /\ UNCHANGED <<inputVars, recordVars, exception, is_valid, errors, midi,
                 parseVars, load_result, delete_result>>

\* the disk after the exercise file was removed
Removed(f) ==
  [f EXCEPT !.written = FALSE, !.type = "absent", !.chord = NoChord,
            !.lily = FALSE]

\* os.rmdir after a file of the group was removed: the directory goes when
\* no exercise file is left and the file system lets it go
AfterRmdir(f, rmdir_ok) ==
  IF GroupSize(f) = 0 /\ rmdir_ok
  THEN [f EXCEPT !.dir = FALSE, !.group = <<>>]
  ELSE f

\* lab: ExerciseFile.delete under the answers of the file system: False
\* when the file is not there; os.remove may fail with OSError; os.rmdir
\* is tried on the group directory and an OSError of it is passed over
DeleteFile(f, remove_ok, rmdir_ok) ==
  IF ~f.written THEN [file |-> f, outcome |-> "False"]
  ELSE IF ~remove_ok THEN [file |-> f, outcome |-> "OSError"]
  ELSE [file |-> AfterRmdir(Removed(f), rmdir_ok), outcome |-> "True"]

\* findFiles sorts the file names of a directory as strings: 100.json
\* comes after 10.json and before 11.json, the names of two digits are
\* in the order of their numbers
SortKey(n) == IF n < 100 THEN 10 * n ELSE n + 5

\* lab: ExerciseGroup.delete of a group the repository has scanned calls
\* delete on each of its exercise files in the order of findFiles: all
\* are removed, and the directory after the last one (fail = 0), or the
\* os.remove of the file of number fail raises OSError and that file and
\* those after it stay
DeleteAll(f, fail, rmdir_ok) ==
  IF GroupSize(f) = 0 THEN [file |-> f, outcome |-> "None"]
  ELSE IF fail = 0
  THEN [file |-> AfterRmdir([Removed(f) EXCEPT !.others = {}], rmdir_ok),
        outcome |-> "None"]
  ELSE LET stay(n) == SortKey(n) >= SortKey(fail)
           g == IF f.written /\ ~stay(f.name) THEN Removed(f) ELSE f
       IN  [file |-> [g EXCEPT !.others = {n \in f.others : stay(n)}],
            outcome |-> "OSError"]

\* lab: deleteExercise and deleteGroup of the repository answer False to
\* an OSError of the deletion and True to everything else
RepositoryAnswer(outcome) == IF outcome = "OSError" THEN "False" ELSE "True"

\* the deletions of the model come after a call on the file; they do not
\* read the record, and are tried for the records of EnvNotations and
\* for those without a notation
AfterStore ==
  /\ pc \in {"saved", "created", "save_raised", "create_raised"}
  /\ lpstring \in EnvNotations \cup {<<>>}

\* lab: ExerciseFile.delete called on the exercise file
Delete ==
  /\ AfterStore
  /\ variant = "lab"
  /\ \E remove_ok \in BOOLEAN, rmdir_ok \in BOOLEAN :
       LET d == DeleteFile(file, remove_ok, rmdir_ok)
       IN  /\ file' = d.file
           /\ delete_result' = [call |-> "delete", value |-> d.outcome]
  /\ pc' = "deleted"
  /\ UNCHANGED <<inputVars, recordVars, exception, is_valid, errors, midi,
                 parseVars, save_result, load_result, result>>

\* lab: ExerciseGroup.delete called on the group of the exercise file
GroupDelete ==
  /\ AfterStore
  /\ variant = "lab"
  /\ \E fail \in {0} \cup FileNames(file), rmdir_ok \in BOOLEAN :
       LET d == DeleteAll(file, fail, rmdir_ok)
       IN  /\ file' = d.file
           /\ delete_result' = [call |-> "group.delete", value |-> d.outcome]
  /\ pc' = "deleted"
  /\ UNCHANGED <<inputVars, recordVars, exception, is_valid, errors, midi,
                 parseVars, save_result, load_result, result>>

\* lab: ExerciseFileRepository.deleteExercise(group_name, exercise_name)
\* of a repository that has just scanned the files; found says that the
\* names given are those of the exercise file. Without a match nothing is
\* deleted and the answer is True all the same
DeleteExercise ==
  /\ AfterStore
  /\ variant = "lab"
  /\ \E found \in BOOLEAN, remove_ok \in BOOLEAN, rmdir_ok \in BOOLEAN :
       IF ~(found /\ file.written)
       THEN /\ delete_result' = [call |-> "deleteExercise", value |-> "True"]
            /\ UNCHANGED file
       ELSE LET d == DeleteFile(file, remove_ok, rmdir_ok)
            IN  /\ file' = d.file
                /\ delete_result' = [call |-> "deleteExercise",
                                     value |-> RepositoryAnswer(d.outcome)]
  /\ pc' = "deleted"
  /\ UNCHANGED <<inputVars, recordVars, exception, is_valid, errors, midi,
                 parseVars, save_result, load_result, result>>

\* lab: ExerciseFileRepository.deleteGroup(group_name); found says that
\* the name given is that of the group directory, which the repository
\* knows as a group when it holds exercise files
DeleteGroup ==
  /\ AfterStore
  /\ variant = "lab"
  /\ \E found \in BOOLEAN, fail \in {0} \cup FileNames(file),
        rmdir_ok \in BOOLEAN :
       IF ~(found /\ GroupSize(file) > 0)
       THEN /\ delete_result' = [call |-> "deleteGroup", value |-> "True"]
            /\ UNCHANGED file
       ELSE LET d == DeleteAll(file, fail, rmdir_ok)
            IN  /\ file' = d.file
                /\ delete_result' = [call |-> "deleteGroup",
                                     value |-> RepositoryAnswer(d.outcome)]
  /\ pc' = "deleted"
  /\ UNCHANGED <<inputVars, recordVars, exception, is_valid, errors, midi,
                 parseVars, save_result, load_result, result>>

Next ==
  \/ Load
  \/ ProcessDataBegin
  \/ ParseBegin
  \/ BeginChord
  \/ ParseEntryLab
  \/ ParseEntryHarmony
  \/ EndChord
  \/ ParseAbort
  \/ ParseReturn
  \/ ProcessDataEnd
  \/ LoadReturn
  \/ Save
  \/ Create
  \/ CreateExercise
  \/ Delete
  \/ GroupDelete
  \/ DeleteExercise
  \/ DeleteGroup

Spec == Init /\ [][Next]_vars

TypeOK ==
  /\ pc \in {"load", "start", "parse", "chords", "entry", "break", "abort",
             "parsed", "processed", "saved", "created", "raised",
             "load_raised", "save_raised", "create_raised", "deleted"}
  /\ is_valid \in BOOLEAN
  /\ file.name \in Nat \ {0}
  /\ file.others \subseteq Nat \ {0, file.name}

\* ---------------------------------------------------------------- claims

IsPrefix(a, b) == Len(a) <= Len(b) /\ SubSeq(b, 1, Len(a)) = a

\* C1: whatever the notation string, building the ExerciseLilyPond never
\* raises; malformed notation gives is_valid = false and a non-empty
\* errors list instead.
C1_ParseNeverRaises ==
  lily_present =>
    /\ pc # "raised"
    /\ (pc = "parsed" /\ ~is_valid => errors # <<>>)

\* C2: throughout a parse and in its result is_valid is true exactly when
\* errors is empty; an error once appended stays, and is_valid never
\* returns to true.
C2_ValidIffNoErrors ==
  /\ [](is_valid <=> errors = <<>>)
  /\ [][IsPrefix(errors, errors') /\ (~is_valid => ~is_valid')]_vars

C2_Witness == pc = "break" /\ Len(errors) = 2 /\ ~is_valid

InsertAt(s, k, c) == SubSeq(s, 1, k) \o <<c>> \o SubSeq(s, k + 1, Len(s))
HasDigit(e) == \E i \in 1..Len(e) : e[i] \in Digits
StartsHidden(e) == e # <<>> /\ Head(e) = "x"

\* the pitch the running copy resolves for entry e where the parse stands
PitchHere(e) ==
  LET h == EntryHead(e, chordstring)
  IN  IF variant = "lab" THEN EntryPitchLab(h, octave)
      ELSE EntryPitchHarmony(h, saved_octaves, previous_note)

OneVisible(p) == <<[visible |-> <<p>>, hidden |-> <<>>]>>

\* C3: <c>, <c'> and <c,> parse to the visible pitches 48, 60 and 36, and
\* for an entry without a digit one more raise mark, wherever it is put
\* after the note letter, is exactly +12 and one more lower mark exactly -12.
C3_OctaveMarks ==
  /\ pc = "parsed" /\ lpstring = <<LT, "c", GT>> => midi = OneVisible(48)
  /\ pc = "parsed" /\ lpstring = <<LT, "c", "'", GT>> => midi = OneVisible(60)
  /\ pc = "parsed" /\ lpstring = <<LT, "c", ",", GT>> => midi = OneVisible(36)
  /\ pc = "entry" /\ idx <= Len(pitch_entries)
       => LET e == pitch_entries[idx]
              first == IF StartsHidden(e) THEN 2 ELSE 1
          IN  e # <<>> /\ EntryHead(e, chordstring).status = "ok"
                /\ ~HasDigit(e)
                => \A k \in first..Len(e) :
                     /\ PitchHere(InsertAt(e, k, up)) = PitchHere(e) + 12
                     /\ PitchHere(InsertAt(e, k, down)) = PitchHere(e) - 12

C3_Witness ==
  /\ pc = "parsed"
  /\ lpstring = <<LT, "c", "'", GT>>
  /\ midi = OneVisible(60)

C4_Notation == <<LT, "x", SP, "c", GT>>

\* C4 as stated: <x c> parses to a valid result whose single chord has one
\* hidden and one visible pitch.
C4_OneHiddenOneVisible ==
  pc = "parsed" /\ lpstring = C4_Notation
    => /\ is_valid
       /\ Len(midi) = 1
       /\ Len(midi[1].hidden) = 1
       /\ Len(midi[1].visible) = 1

\* C4 amended: in <x c> the x is an entry of its own, without a note name:
\* the result is invalid, holds the one "missing or invalid note name"
\* error of entry x and no pitch. One hidden and one visible pitch come
\* from a chord whose hidden symbol is attached to its note: <xc c>.
C4_HiddenSymbolAttached ==
  /\ pc = "parsed" /\ lpstring = C4_Notation
       => /\ ~is_valid
          /\ errors = <<[kind |-> "invalid_note", entry |-> <<"x">>,
                         chord |-> <<"x", SP, "c">>, residue |-> <<>>]>>
          /\ \A k \in 1..Len(midi) : midi[k] = EmptyMidiChord
  /\ pc = "parsed" /\ lpstring = <<LT, "x", "c", SP, "c", GT, "1">>
       => /\ is_valid
          /\ midi = <<[visible |-> <<48>>, hidden |-> <<48>>]>>

C4_Witness ==
  /\ pc = "parsed"
  /\ lpstring = C4_Notation
  /\ midi = <<EmptyMidiChord>>
  /\ Len(errors) = 1

CountHidden(entries, n) ==
  Cardinality({j \in 1..n : StartsHidden(entries[j])})

\* C5: every entry parsed without error adds exactly one pitch at the end
\* of exactly one list of the chord, the hidden list when the entry starts
\* with the hidden symbol and the visible list otherwise, so the two lists
\* together hold as many pitches as entries were parsed; the chord handed
\* to the result is the one so built.
C5_OnePitchOneList ==
  /\ [](pc \in {"entry", "break", "abort"}
          => /\ Len(midi_chord.hidden) = CountHidden(pitch_entries, idx - 1)
             /\ Len(midi_chord.visible)
                  = (idx - 1) - CountHidden(pitch_entries, idx - 1))
  /\ [][/\ pc = "entry" /\ pc' = "entry" /\ idx' = idx + 1
             => IF StartsHidden(pitch_entries[idx])
                THEN /\ midi_chord'.visible = midi_chord.visible
                     /\ Len(midi_chord'.hidden) = Len(midi_chord.hidden) + 1
                     /\ IsPrefix(midi_chord.hidden, midi_chord'.hidden)
                ELSE /\ midi_chord'.hidden = midi_chord.hidden
                     /\ Len(midi_chord'.visible) = Len(midi_chord.visible) + 1
                     /\ IsPrefix(midi_chord.visible, midi_chord'.visible)
        /\ pc = "entry" /\ pc' = "chords"
             => midi_chords' = Append(midi_chords, midi_chord)]_vars

C5_Witness ==
  /\ pc = "entry"
  /\ idx = 3
  /\ Len(midi_chord.hidden) = 1
  /\ Len(midi_chord.visible) = 1
  /\ StartsHidden(pitch_entries[2])

EntryOK(e, cs) == e # <<>> /\ EntryHead(e, cs).status = "ok"

\* C6 (lab): the first bad entry ends the parse: exactly its one error is
\* recorded, is_valid is false, nothing after it is examined (the loops
\* stay where they were), and the result is the empty chord sequence, the
\* chords parsed before it included.
C6_FailFast ==
  variant = "lab" /\ errors # <<>>
    => /\ pc \in {"abort", "parsed", "processed", "saved", "created",
                  "save_raised", "create_raised", "deleted"}
       /\ ~is_valid
       /\ Len(errors) = 1
       /\ pc # "abort" => midi = <<>>
       /\ ci <= Len(chords) /\ idx <= Len(pitch_entries)
       /\ Len(midi_chords) = ci - 1
       /\ errors[1].entry = pitch_entries[idx]
       /\ errors[1].chord = chordstring
       /\ ~EntryOK(pitch_entries[idx], chordstring)
       /\ \A j \in 1..(idx - 1) : EntryOK(pitch_entries[j], chordstring)
       /\ \A k \in 1..(ci - 1) :
            LET cs == Strip(Lower(SubXNote(chords[k])))
            IN  \A j \in 1..Len(SplitWS(cs)) : EntryOK(SplitWS(cs)[j], cs)

C6_Witness ==
  /\ variant = "lab"
  /\ pc = "parsed"
  /\ ~is_valid
  /\ midi = <<>>
  /\ midi_chords # <<>>
  /\ idx < Len(pitch_entries)

\* harmony: the entries of chord k of the parse, as parseChord splits them
EntriesOf(k) == SplitWS(Lower(SubXNote(chords[k])))
AllEntriesOK(k) ==
  \A j \in 1..Len(EntriesOf(k)) :
    EntryOK(EntriesOf(k)[j], Lower(SubXNote(chords[k])))

\* C7 (harmony): a bad entry records its error and makes is_valid false,
\* the rest of its chord is not processed, the next chord is parsed all the
\* same; the result has the pitches of every chord without a bad entry and
\* there is one error per chord with a bad entry.
C7_AccumulateAndContinue ==
  /\ [](variant = "harmony" /\ pc = "break"
          => /\ ~is_valid
             /\ errors # <<>>
             /\ errors[Len(errors)].entry = pitch_entries[idx])
  /\ [](variant = "harmony" /\ pc \in {"chords", "parsed"}
          => /\ Len(midi_chords) = ci - 1
             /\ Len(errors)
                  = Cardinality({k \in 1..(ci - 1) : ~AllEntriesOK(k)})
             /\ \A k \in 1..(ci - 1) :
                  AllEntriesOK(k)
                    => Len(midi_chords[k].visible) + Len(midi_chords[k].hidden)
                         = Len(EntriesOf(k)))
  /\ [](variant = "harmony" /\ pc = "parsed"
          => /\ midi = midi_chords
             /\ Len(midi) = Len(chords)
             /\ is_valid <=> \A k \in 1..Len(chords) : AllEntriesOK(k))
  /\ [][variant = "harmony"
          => /\ pc = "break"
                  => /\ pc' = "chords"
                     /\ ci' = ci + 1
                     /\ errors' = errors
                     /\ midi_chords' = Append(midi_chords, midi_chord)
             /\ pc = "chords" /\ ci <= Len(chords)
                  => /\ pc' = "entry"
                     /\ idx' = 1
                     /\ pitch_entries' = EntriesOf(ci)]_vars

C7_Witness ==
  /\ variant = "harmony"
  /\ pc = "parsed"
  /\ ~is_valid
  /\ Len(errors) = 1
  /\ Len(midi) = 2
  /\ midi[1] = EmptyMidiChord
  /\ midi[2] # EmptyMidiChord

Recognized == {"'", ",", "s", "f"} \cup Digits

RECURSIVE Offending(_)
Offending(rest) ==
  IF rest = <<>> THEN <<>>
  ELSE IF Head(rest) \in Recognized THEN Offending(Tail(rest))
  ELSE <<Head(rest)>> \o Offending(Tail(rest))

\* the entry has a note letter (after the hidden symbol, if any) and a
\* character that is no octave mark, accidental or digit after it
AfterHidden(e) == IF StartsHidden(e) THEN Tail(e) ELSE e
HasUnrecognized(e) ==
  /\ AfterHidden(e) # <<>>
  /\ Head(AfterHidden(e)) \in {"c", "d", "e", "f", "g", "a", "b"}
  /\ Offending(Tail(AfterHidden(e))) # <<>>

\* C8: an entry with a valid note letter and a character outside
\* ' , s f digit after it adds exactly one error, of the "contains
\* unrecognized symbols" kind, whose residue is the offending characters in
\* their order, and no pitch; <cq> reports q.
C8_UnrecognizedSymbols ==
  /\ [][pc = "entry" /\ idx <= Len(pitch_entries)
          /\ HasUnrecognized(pitch_entries[idx])
          => /\ errors' =
                  Append(errors,
                    [kind |-> "unrecognized", entry |-> pitch_entries[idx],
                     chord |-> chordstring,
                     residue |->
                       Offending(Tail(AfterHidden(pitch_entries[idx])))])
             /\ midi_chord' = midi_chord
             /\ ~is_valid']_vars
  /\ [](pc = "parsed" /\ lpstring = <<LT, "c", "q", GT>>
          => /\ Len(errors) = 1
             /\ errors[1].kind = "unrecognized"
             /\ errors[1].residue = <<"q">>
             /\ \A k \in 1..Len(midi) : midi[k] = EmptyMidiChord)

C8_Witness ==
  /\ errors # <<>>
  /\ errors[Len(errors)].kind = "unrecognized"
  /\ Len(errors[Len(errors)].residue) = 2
  /\ errors[Len(errors)].residue[1] # errors[Len(errors)].residue[2]

NoBracketGroup(s) ==
  ~\E i, j \in 1..Len(s) : i < j /\ s[i] = LT /\ s[j] = GT

\* C9: a notation without a bracket group, the empty string included,
\* parses to is_valid = true, no chords and no errors.
C9_NoBracketGroup ==
  lily_present /\ NoBracketGroup(lpstring)
    => /\ pc \notin {"raised", "entry", "break", "abort"}
       /\ pc = "chords" => chords = <<>>
       /\ pc \in {"parsed", "processed", "saved", "created"}
            => is_valid /\ midi = <<>> /\ errors = <<>>

C9_Witness ==
  /\ lily_present
  /\ lpstring = <<>>
  /\ pc = "parsed"
  /\ is_valid /\ midi = <<>> /\ errors = <<>>

\* the exits of save that are the file system's or the caller's doing: an
\* OSError or IOError of the disk, no record handed over, and "none" of
\* a create that did not come to save (no group name handed over, no file
\* name left)
StoreFailures == {"none", "ExerciseFileError", "OSError"}

\* C10 (lab): a record with invalid notation is never persisted: it is
\* invalid, gets no 'chord' key and carries the parser's errors, save
\* returns False, createExercise the error result, and neither writes
\* anything to the file; with valid notation the chords are stored under
\* 'chord' and save, unless the disk fails it, writes the record to the
\* file.
C10_InvalidNeverPersisted ==
  /\ [](variant = "lab" /\ lily_present
          /\ pc \in {"processed", "saved", "created", "save_raised",
                     "create_raised", "deleted"}
        => /\ def_valid <=> is_valid
           /\ is_valid => data_chord = [present |-> TRUE, value |-> midi]
           /\ ~is_valid => /\ data_chord = in_chord
                           /\ errors # <<>>
                           /\ def_errors = errors)
  /\ [][variant = "lab" /\ pc = "processed" /\ pc' # pc /\ ~def_valid
         => /\ file' = file
            /\ pc' = "saved" => save_result' = "False"
            /\ pc' = "created" /\ result'.status # "ef"
                 => result' = [status |-> "error", errors |-> def_errors]]_vars
  /\ [][variant = "lab" /\ pc = "processed" /\ pc' # pc /\ def_valid
           /\ save_result' \notin StoreFailures
         => /\ save_result' = "True"
            /\ file'.written
            /\ file'.type = data_type
            /\ file'.chord = data_chord]_vars

\* the position of the first digit of an entry
FirstDigit(e) ==
  CHOOSE i \in 1..Len(e) :
    e[i] \in Digits /\ \A j \in 1..(i - 1) : e[j] \notin Digits

NoRaiseLower(s) == SelectSeq(s, LAMBDA c : c \notin {up, down})

\* entry e with the raise and lower marks before its first digit taken out
MarksBeforeDigitDropped(e) ==
  NoRaiseLower(SubSeq(e, 1, FirstDigit(e) - 1))
    \o SubSeq(e, FirstDigit(e), Len(e))

\* C11: a digit among the octave marks of an entry sets the octave outright
\* and overrides the raise and lower marks met before it: the entry
\* resolves to the pitch it has with those marks taken out (c'5 as c5).
C11_DigitOverridesMarks ==
  pc = "entry" /\ idx <= Len(pitch_entries)
    => LET e == pitch_entries[idx]
       IN  EntryOK(e, chordstring) /\ HasDigit(e)
             => PitchHere(e) = PitchHere(MarksBeforeDigitDropped(e))

CountOf(s, c) == Len(SelectSeq(s, LAMBDA x : x = c))
DigitsOf(e) == SelectSeq(e, LAMBDA c : c \in Digits)

\* C12: a digit d replaces the base octave of its entry: an entry whose
\* only octave mark is the digit d resolves to d * 12 plus the pitch class
\* and the accidentals, whatever the octave context and the notes before it,
\* so that <c5> parses to 60.
C12_DigitSetsOctave ==
  /\ pc = "parsed" /\ lpstring = <<LT, "c", "5", GT>> => midi = OneVisible(60)
  /\ pc = "entry" /\ idx <= Len(pitch_entries)
       => LET e == pitch_entries[idx]
              h == EntryHead(e, chordstring)
          IN  /\ EntryOK(e, chordstring)
              /\ Len(DigitsOf(e)) = 1
              /\ NoRaiseLower(e) = e
              => PitchHere(e) =
                   DigitVal(DigitsOf(e)[1]) * 12 + note_pitch(h.note_name)
                     + CountOf(h.tokens, sharp) - CountOf(h.tokens, flat)

\* the two note letters are no more than a fifth apart
WithinFifth(a, b) == Abs(NoteIndex(a) - NoteIndex(b)) + 1 <= 5

\* C13: harmony: an entry without an octave mark that follows another entry
\* of its chord resolves to the octave resolved for that entry when the two
\* letters are within a fifth, and to one octave above or below it
\* otherwise, however long the chord is.
C13_RelativeToPreviousNote ==
  [][ /\ variant = "harmony"
      /\ pc = "entry" /\ pc' = "entry" /\ idx' = idx + 1
      /\ idx > 1
      /\ OctaveMarks(EntryHead(pitch_entries[idx], chordstring).tokens) = <<>>
      => LET before == saved_octaves[Len(saved_octaves)]
             after == saved_octaves'[Len(saved_octaves')]
         IN  IF WithinFifth(previous_note,
                            EntryHead(pitch_entries[idx], chordstring).note_name)
             THEN after = before
             ELSE Abs(after - before) = 1 ]_vars

\* C14: harmony: the octave context is 4 when a parse starts and is handed
\* from chord to chord: the next chord starts from the octave resolved for
\* the last entry parsed in this chord, or from the octave this chord
\* started from when it gave no pitch.
C14_OctaveCarriedAcrossChords ==
  /\ [](variant = "harmony" /\ pc = "chords" /\ ci = 1 => octave = 4)
  /\ [][ variant = "harmony" /\ pc \in {"entry", "break"} /\ pc' = "chords"
         => octave' = saved_octaves[Len(saved_octaves)] ]_vars

\* lab: the entries of chord k of the parse, as parseChord splits them
EntriesLab(k) == SplitWS(NormalizeLab(chords[k]))

\* the pitch the result of the parse holds for entry j of chord k
ResultPitch(k, j) ==
  LET es == EntriesLab(k)
      nh == CountHidden(es, j)
  IN  IF StartsHidden(es[j]) THEN midi[k].hidden[nh]
      ELSE midi[k].visible[j - nh]

\* C15 (lab): the pitch of an entry of a valid notation depends on the
\* characters of the entry alone: wherever the same entry text stands it
\* has the same pitch, the one it has as the only entry of a notation, and
\* an entry without octave mark or digit is in octave 4.
C15_AbsolutePitch ==
  variant = "lab" /\ pc = "parsed" /\ is_valid
    => \A k \in 1..Len(chords) : \A j \in 1..Len(EntriesLab(k)) :
         LET e == EntriesLab(k)[j]
             t == AfterHidden(e)
         IN  /\ OctaveMarks(t) = <<>>
                  => ResultPitch(k, j)
                       = 4 * 12 + note_pitch(Head(t))
                           + CountOf(Tail(t), sharp) - CountOf(Tail(t), flat)
             /\ ResultPitch(k, j) = EntryPitchLab(EntryHead(e, e), 4)
             /\ \A k2 \in 1..Len(chords) : \A j2 \in 1..Len(EntriesLab(k2)) :
                  EntriesLab(k2)[j2] = e
                    => ResultPitch(k2, j2) = ResultPitch(k, j)

C15_Witness ==
  /\ variant = "lab"
  /\ pc = "parsed"
  /\ is_valid
  /\ lpstring = Join(<<Chord(<<<<"b">>, <<"c">>>>), Chord(<<<<"c">>>>)>>, <<SP>>)
  /\ midi = <<[visible |-> <<59, 48>>, hidden |-> <<>>],
              [visible |-> <<48>>, hidden |-> <<>>]>>

\* the pitch classes of the seven note letters
PitchClass(n) ==
  CASE n = "c" -> 0 [] n = "d" -> 2 [] n = "e" -> 4 [] n = "f" -> 5
    [] n = "g" -> 7 [] n = "a" -> 9 [] n = "b" -> 11

\* C16: the pitch added for a well-formed entry is its resolved octave
\* times 12, plus the pitch class of its letter, plus the number of s minus
\* the number of f among the characters after the letter, in whatever order
\* they stand and whatever stands between them.
C16_PitchFormula ==
  [][ pc = "entry" /\ pc' = "entry" /\ idx' = idx + 1
      => LET h == EntryHead(pitch_entries[idx], chordstring)
             list == IF h.hidden THEN midi_chord'.hidden
                                 ELSE midi_chord'.visible
             resolved_octave ==
               IF variant = "harmony"
               THEN saved_octaves'[Len(saved_octaves')]
               ELSE EntryOctaveLab(h.tokens, octave)
         IN  list[Len(list)]
               = resolved_octave * 12 + PitchClass(h.note_name)
                   + CountOf(h.tokens, sharp) - CountOf(h.tokens, flat) ]_vars

C16_Witness ==
  /\ pc = "parsed"
  /\ lpstring = <<LT, "f", "f", "s", GT>>
  /\ midi = OneVisible(53)

\* C17: splitting a chord substring gives non-empty entries only: white
\* space at its start, at its end or repeated inside it, or left where a
\* hidden-note marker was normalised, never makes an empty entry that the
\* loop over the entries gets to examine.
C17_NoEmptyEntry ==
  pc = "entry" => \A j \in 1..Len(pitch_entries) : pitch_entries[j] # <<>>

\* the substrings between a '<' and the next '>' after it, from left to
\* right, the empty ones left out; the search goes on after that '>'
RECURSIVE BracketGroups(_)
BracketGroups(s) ==
  LET opens == {i \in 1..Len(s) :
                  s[i] = LT /\ \E j \in (i + 1)..Len(s) : s[j] = GT}
  IN  IF opens = {} THEN <<>>
      ELSE LET i == CHOOSE a \in opens : \A b \in opens : a <= b
               closes == {j \in (i + 1)..Len(s) : s[j] = GT}
               j == CHOOSE a \in closes : \A b \in closes : a <= b
               rest == BracketGroups(SubSeq(s, j + 1, Len(s)))
           IN  IF j = i + 1 THEN rest
               ELSE <<SubSeq(s, i + 1, j - 1)>> \o rest

\* the chord string parseChord works on for chord k of the parse
NormalizedChord(k) ==
  IF variant = "lab" THEN NormalizeLab(chords[k])
                     ELSE NormalizeHarmony(chords[k])

\* C18: the chords extracted from a notation are exactly the non-empty
\* substrings between a '<' and the next '>', in their order, the text
\* outside the brackets being dropped; the result of a notation without a
\* bad entry has one MIDI chord per substring, the i-th built from the i-th
\* substring and holding one pitch per entry of it.
C18_ChordExtraction ==
  /\ [](lily_present /\ pc \notin {"load", "load_raised", "start", "parse"}
          => chords = BracketGroups(lpstring))
  /\ [](pc = "parsed" /\ is_valid
          => /\ Len(midi) = Len(chords)
             /\ \A k \in 1..Len(chords) :
                  Len(midi[k].visible) + Len(midi[k].hidden)
                    = Len(SplitWS(NormalizedChord(k))))
  /\ [][/\ pc = "chords" /\ pc' = "entry"
             => /\ chordstring' = NormalizedChord(ci)
                /\ pitch_entries' = SplitWS(NormalizedChord(ci))
        /\ pc = "entry" /\ pc' = "chords"
             => /\ Len(midi_chords) = ci - 1
                /\ midi_chords' = Append(midi_chords, midi_chord)
                /\ ci' = ci + 1
        /\ pc = "chords" /\ pc' = "parsed"
             => ci = Len(chords) + 1 /\ midi' = midi_chords]_vars

C18_Witness ==
  /\ pc = "parsed"
  /\ is_valid
  /\ lpstring = Join(<<Chord(<<<<"c">>, <<"c">>>>), Chord(<<<<"b">>>>)>>, <<SP>>)
  /\ chords = <<<<"c", SP, "c">>, <<"b">>>>
  /\ midi = <<[visible |-> <<48, 48>>, hidden |-> <<>>],
              [visible |-> <<59>>, hidden |-> <<>>]>>

\* C19: a record built from data without a "lilypond_chords" field is
\* built without an exception: it is valid, has no errors, has the type
\* "matching" when none was given, and gets no "chord".
C19_NoNotationRecord ==
  ~lily_present
    => /\ pc # "raised"
       /\ exception = "none"
       /\ def_valid
       /\ def_errors = <<>>
       /\ data_chord = in_chord
       /\ pc \notin {"load", "load_raised", "start"} /\ in_type = "absent"
            => data_type = "matching"

\* C20 (harmony): the result has one MIDI chord per extracted chord, errors
\* or not; the chord of a bad entry is in the result with exactly the
\* pitches of the entries before that entry, and the octave handed to the
\* next chord is the one the parse had resolved when it met the bad entry.
C20_PartialChordKept ==
  /\ [](variant = "harmony" /\ pc = "parsed" => Len(midi) = Len(chords))
  /\ [](variant = "harmony" /\ pc = "break"
          => /\ \A j \in 1..(idx - 1) : EntryOK(pitch_entries[j], chordstring)
             /\ ~EntryOK(pitch_entries[idx], chordstring)
             /\ Len(midi_chord.hidden) = CountHidden(pitch_entries, idx - 1)
             /\ Len(midi_chord.visible)
                  = (idx - 1) - CountHidden(pitch_entries, idx - 1))
  /\ [][variant = "harmony" /\ pc = "break"
          => /\ midi_chords' = Append(midi_chords, midi_chord)
             /\ octave' = saved_octaves[Len(saved_octaves)]]_vars

=============================================================================
